---- MODULE Spec2Model ----
(***************************************************************************)
(* Field Extraction Reconciler of backend/src/services/                    *)
(* template_ocr_service.py (TemplateOCRService): one run of                *)
(* extract_values_from_document_with_template over a template catalogue,   *)
(* with the replies of the generative-text service as inputs.              *)
(*                                                                         *)
(* Python str values are sequences of one-character strings, Python dicts  *)
(* are sequences of [k, v] entries with distinct keys, in insertion order. *)
(***************************************************************************)
EXTENDS Integers, Sequences, FiniteSets, TLC

\* ------------------------------------------------------------------------
\* Bounds of the model (inputs of the run are drawn within them)
\* ------------------------------------------------------------------------

\* most keys in one pass-1 or pass-2 reply object (small catalogues)
MaxReplyKeys == 2

\* most keys in one refinement reply object (small catalogues)
MaxRefineKeys == 1

\* ------------------------------------------------------------------------
\* Program constants
\* ------------------------------------------------------------------------

\* missing_percentage >= 50.0
SecondPassPercent == 50

\* list(filtered_missing.items())[:15]
MaxPriorityFields == 15

\* initial_response_text[:500] + "..."
RawPreviewChars == 500

\* ------------------------------------------------------------------------
\* Python str operations
\* ------------------------------------------------------------------------

UpperChars == <<"A","B","C","D","E","F","G","H","I","J","K","L","M",
                "N","O","P","Q","R","S","T","U","V","W","X","Y","Z">>

LowerChars == <<"a","b","c","d","e","f","g","h","i","j","k","l","m",
                "n","o","p","q","r","s","t","u","v","w","x","y","z">>

LowerChar(c) ==
    IF \E i \in 1..26 : UpperChars[i] = c
    THEN LowerChars[CHOOSE i \in 1..26 : UpperChars[i] = c]
    ELSE c

UpperChar(c) ==
    IF \E i \in 1..26 : LowerChars[i] = c
    THEN UpperChars[CHOOSE i \in 1..26 : LowerChars[i] = c]
    ELSE c

\* s.lower()
Lower(s) == [i \in 1..Len(s) |-> LowerChar(s[i])]

\* s.upper()
Upper(s) == [i \in 1..Len(s) |-> UpperChar(s[i])]

\* s.replace(a, b) for a one-character a; b is a str (possibly empty)
RECURSIVE Replace(_, _, _)
Replace(s, a, b) ==
    IF s = <<>> THEN <<>>
    ELSE (IF Head(s) = a THEN b ELSE <<Head(s)>>) \o Replace(Tail(s), a, b)

\* s.strip(chars): drop leading and trailing characters that are in chars
RECURSIVE LStrip(_, _)
LStrip(s, chars) ==
    IF s # <<>> /\ Head(s) \in chars THEN LStrip(Tail(s), chars) ELSE s

RECURSIVE RStrip(_, _)
RStrip(s, chars) ==
    IF s # <<>> /\ s[Len(s)] \in chars
    THEN RStrip(SubSeq(s, 1, Len(s) - 1), chars) ELSE s

StripChars(s, chars) == RStrip(LStrip(s, chars), chars)

Whitespace == {" ", "\t", "\n"}

\* s.strip()
Strip(s) == StripChars(s, Whitespace)

\* key.strip("{}")
StripBraces(s) == StripChars(s, {"{", "}"})

\* sub in s
Contains(s, sub) ==
    \E i \in 1..(Len(s) - Len(sub) + 1) : SubSeq(s, i, i + Len(sub) - 1) = sub

\* s.startswith(p)
StartsWith(s, p) == Len(s) >= Len(p) /\ SubSeq(s, 1, Len(p)) = p

\* any(keyword in s for keyword in keywords)
AnyIn(keywords, s) == \E kw \in keywords : Contains(s, kw)

\* ------------------------------------------------------------------------
\* Python dict operations (insertion-ordered)
\* ------------------------------------------------------------------------

Range(seq) == {seq[i] : i \in 1..Len(seq)}

\* list(d.keys())
Keys(d) == [i \in 1..Len(d) |-> d[i].k]

KeySet(d) == {d[i].k : i \in 1..Len(d)}

\* k in d
Has(d, k) == \E i \in 1..Len(d) : d[i].k = k

\* d[k]
Get(d, k) == d[CHOOSE i \in 1..Len(d) : d[i].k = k].v

\* d[k] = v
Put(d, k, v) ==
    IF Has(d, k)
    THEN [i \in 1..Len(d) |-> IF d[i].k = k THEN [k |-> k, v |-> v] ELSE d[i]]
    ELSE Append(d, [k |-> k, v |-> v])

\* del d[k]
RECURSIVE Del(_, _)
Del(d, k) ==
    IF d = <<>> THEN <<>>
    ELSE IF Head(d).k = k THEN Tail(d)
    ELSE <<Head(d)>> \o Del(Tail(d), k)

\* ------------------------------------------------------------------------
\* JSON values of a reply object: a str or an int
\* ------------------------------------------------------------------------

JStr(s) == [t |-> "str", s |-> s, n |-> 0]

JInt(n) == [t |-> "int", s |-> <<>>, n |-> n]

\* bool(value)
Truthy(v) == IF v.t = "str" THEN v.s # <<>> ELSE v.n # 0

DigitChars == <<"0","1","2","3","4","5","6","7","8","9">>

\* str(n) for a natural number n
RECURSIVE IntStr(_)
IntStr(n) ==
    IF n < 10 THEN <<DigitChars[n + 1]>>
    ELSE IntStr(n \div 10) \o <<DigitChars[(n % 10) + 1]>>

\* str(value)
Str(v) == IF v.t = "str" THEN v.s ELSE IntStr(v.n)

\* ------------------------------------------------------------------------
\* Catalogue fields: placeholder_json[key] is a dict {label?, description}
\* or a plain description string
\* ------------------------------------------------------------------------

DictField(key, label, description) ==
    [key |-> key, isdict |-> TRUE, haslabel |-> TRUE,
     label |-> label, description |-> description]

PlainField(key, description) ==
    [key |-> key, isdict |-> FALSE, haslabel |-> FALSE,
     label |-> <<>>, description |-> description]

\* field_info.get('label', k) if isinstance(field_info, dict) else k
FieldLabel(f) == IF f.isdict /\ f.haslabel THEN f.label ELSE f.key

\* list(placeholder_json.keys())
CatalogueKeys(cat) == [i \in 1..Len(cat) |-> cat[i].key]

\* ------------------------------------------------------------------------
\* Group inference
\* ------------------------------------------------------------------------

GenderWords ==
    {<<"s","e","x">>,
     <<"m","a","l","e">>,
     <<"f","e","m","a","l","e">>,
     <<"g","e","n","d","e","r">>}

AttendantWords ==
    {<<"a","t","t","e","n","d","a","n","t">>,
     <<"p","h","y","s","i","c","i","a","n">>,
     <<"n","u","r","s","e">>,
     <<"m","i","d","w","i","f","e">>,
     <<"d","o","c","t","o","r">>}

BirthWords ==
    {<<"b","i","r","t","h">>,
     <<"f","i","r","s","t">>,
     <<"s","e","c","o","n","d">>,
     <<"t","h","i","r","d">>,
     <<"m","u","l","t","i","p","l","e">>}

StatusWords ==
    {<<"l","e","g","i","t","i","m","a","t","e">>,
     <<"s","t","a","t","u","s">>,
     <<"m","a","r","r","i","e","d">>}

PlaceWords ==
    {<<"c","i","t","y"," ","l","i","m","i","t","s">>,
     <<"r","e","s","i","d","e","n","c","e">>,
     <<"p","l","a","c","e">>}

YesNoWords ==
    {<<"y","e","s">>,
     <<"n","o">>,
     <<"y">>,
     <<"n">>}

NoGroup == "none"

\* the if/elif chain over label and description; NoGroup when no branch
\* is taken
KeywordGroup(f) ==
    LET label == IF f.haslabel THEN Lower(f.label) ELSE <<>>
        description == Lower(f.description)
    IN  IF Contains(description, <<"c","h","e","c","k","b","o","x">>)
           \/ Contains(label, <<"c","h","e","c","k">>)
        THEN IF AnyIn(GenderWords, label) THEN "gender"
             ELSE IF AnyIn(AttendantWords, label) THEN "attendant"
             ELSE IF AnyIn(BirthWords, label) THEN "birth_type"
             ELSE IF AnyIn(StatusWords, label) THEN "status"
             ELSE IF AnyIn(PlaceWords, description) /\ AnyIn(YesNoWords, label)
                  THEN "location_limits"
             ELSE NoGroup
        ELSE NoGroup

\* the second if/elif chain, over the shape of the key
KeyPatternGroup(f) ==
    LET clean_key == Lower(StripBraces(f.key))
    IN  IF StartsWith(clean_key, <<"a","t">>) /\ Len(clean_key) <= 4
        THEN "attendant_types"
        ELSE IF StartsWith(clean_key, <<"t","b">>) /\ Len(clean_key) <= 4
        THEN "birth_types"
        ELSE IF StartsWith(clean_key, <<"i","m","b">>) /\ Len(clean_key) <= 5
        THEN "multiple_birth_order"
        ELSE NoGroup

\* potential_groups[name].append(field_key), creating the list when absent
AppendToGroup(groups, name, field_key) ==
    IF name = NoGroup THEN groups
    ELSE IF Has(groups, name)
    THEN Put(groups, name, Append(Get(groups, name), field_key))
    ELSE Append(groups, [k |-> name, v |-> <<field_key>>])

\* the loop over placeholder_json.items(), fields 1..n done
RECURSIVE PotentialGroups(_, _)
PotentialGroups(cat, n) ==
    IF n = 0 THEN <<>>
    ELSE LET f == cat[n]
             before == PotentialGroups(cat, n - 1)
         IN  IF f.isdict
             THEN AppendToGroup(AppendToGroup(before, KeywordGroup(f), f.key),
                                KeyPatternGroup(f), f.key)
             ELSE before

\* group-name -> member keys, groups of two or more members only
infer_radio_groups_from_fields(placeholder_json) ==
    SelectSeq(PotentialGroups(placeholder_json, Len(placeholder_json)),
              LAMBDA g : Len(g.v) > 1)

identify_active_radio_groups(placeholder_json) ==
    infer_radio_groups_from_fields(placeholder_json)

\* ------------------------------------------------------------------------
\* Radio-button logic
\* ------------------------------------------------------------------------

\* remove every key of the set ks from the dict d
RECURSIVE DelAll(_, _)
DelAll(d, ks) ==
    IF d = <<>> THEN <<>>
    ELSE IF Head(d).k \in ks THEN DelAll(Tail(d), ks)
    ELSE <<Head(d)>> \o DelAll(Tail(d), ks)

\* [field for field in group_fields
\*        if field in extracted and extracted[field]["value"]]
SelectedFields(group_fields, extracted) ==
    SelectSeq(group_fields,
              LAMBDA field : Has(extracted, field)
                             /\ Get(extracted, field).value # <<>>)

\* the loop over active_groups.items(), groups 1..n done
RECURSIVE PruneMissing(_, _, _, _)
PruneMissing(extracted, missing, active_groups, n) ==
    IF n = 0 THEN missing
    ELSE LET updated_missing == PruneMissing(extracted, missing, active_groups, n - 1)
             group_fields == active_groups[n].v
             selected_fields == SelectedFields(group_fields, extracted)
         IN  IF selected_fields # <<>>
             THEN DelAll(updated_missing,
                         {field \in Range(group_fields) : field # selected_fields[1]})
             ELSE updated_missing

\* variant: the groups are not applied, missing is returned as given
apply_radio_button_logic_unpruned(extracted, missing, active_groups) ==
    [extracted |-> extracted, missing |-> missing]

\* returns (extracted, updated_missing)
apply_radio_button_logic(extracted, missing, active_groups) ==
    [extracted |-> extracted,
     missing |-> PruneMissing(extracted, missing, active_groups, Len(active_groups))]

\* ------------------------------------------------------------------------
\* Reply texts and extract_json_from_text
\* ------------------------------------------------------------------------

\* A reply text is described by what re.search(r'(\{.*\})') and json.loads
\* make of it: kind "json" is one JSON object and nothing else, "prose_json"
\* one JSON object with prose around it, "two_objects" two JSON objects with
\* prose between them (the greedy match spans both and json.loads fails),
\* "bad_json" braces around text that is no JSON, "no_braces" prose alone.
\* obj is the object json.loads returns, len is len(text).
ParsableKinds == {"json", "prose_json"}

UnparsableKinds == {"two_objects", "bad_json", "no_braces"}

\* the Optional[Dict] result: ok = FALSE is None
extract_json_from_text(text) ==
    IF text.kind \in ParsableKinds
    THEN [ok |-> TRUE, obj |-> text.obj]
    ELSE [ok |-> FALSE, obj |-> <<>>]

\* "not parsed": None or the empty dict
Falsy(parsed) == ~parsed.ok \/ parsed.obj = <<>>

\* text[:500] + "..." if len(text) > 500 else text
RawPreview(text) ==
    IF text.len > RawPreviewChars
    THEN [of |-> text, chars |-> RawPreviewChars, dots |-> TRUE]
    ELSE [of |-> text, chars |-> text.len, dots |-> FALSE]

\* ------------------------------------------------------------------------
\* Step 6: the extracted and missing maps
\* ------------------------------------------------------------------------

\* the alternative spellings of a clean key, in the order they are tried
Alternatives(clean_key) ==
    <<Lower(clean_key),
      Upper(clean_key),
      Replace(clean_key, "_", <<>>),
      Replace(clean_key, "/", <<"_">>),
      Replace(clean_key, "-", <<"_">>)>>

NoValue == JStr(<<>>)

\* variant: only the clean key itself is looked up
ExtractedValueExact(clean_key, refined_json) ==
    IF Has(refined_json, clean_key) /\ Truthy(Get(refined_json, clean_key))
    THEN Get(refined_json, clean_key)
    ELSE NoValue

\* the value found for clean_key in refined_json, "" when none
ExtractedValue(clean_key, refined_json) ==
    IF Has(refined_json, clean_key) /\ Truthy(Get(refined_json, clean_key))
    THEN Get(refined_json, clean_key)
    ELSE LET alternatives == Alternatives(clean_key)
             hits == SelectSeq(alternatives,
                               LAMBDA alt_key : Has(refined_json, alt_key)
                                                /\ Truthy(Get(refined_json, alt_key)))
         IN  IF hits # <<>> THEN Get(refined_json, hits[1]) ELSE NoValue

\* the first loop over placeholder_json.keys(), fields 1..n done
RECURSIVE BuildExtracted(_, _, _)
BuildExtracted(placeholder_json, refined_json, n) ==
    IF n = 0 THEN <<>>
    ELSE LET before == BuildExtracted(placeholder_json, refined_json, n - 1)
             f == placeholder_json[n]
             extracted_value == ExtractedValue(StripBraces(f.key), refined_json)
         IN  IF Truthy(extracted_value)
             THEN Put(before, f.key,
                      [label |-> FieldLabel(f), value |-> Strip(Str(extracted_value))])
             ELSE before

\* the second loop over placeholder_json.keys(), fields 1..n done
RECURSIVE BuildMissing(_, _, _)
BuildMissing(placeholder_json, extracted, n) ==
    IF n = 0 THEN <<>>
    ELSE LET before == BuildMissing(placeholder_json, extracted, n - 1)
             f == placeholder_json[n]
         IN  IF ~Has(extracted, f.key)
             THEN Put(before, f.key, [label |-> FieldLabel(f), value |-> <<>>])
             ELSE before

\* variant: the test is "more than half" (> instead of >=)
NeedSecondPassStrict(total_fields, missing_count) ==
    /\ IF total_fields > 0
       THEN missing_count * 100 > SecondPassPercent * total_fields
       ELSE 0 > SecondPassPercent
    /\ missing_count > 0

\* missing_percentage >= 50.0 and missing_count > 0, where
\* missing_percentage = (missing_count / total_fields) * 100 if total_fields > 0 else 0
NeedSecondPass(total_fields, missing_count) ==
    /\ IF total_fields > 0
       THEN missing_count * 100 >= SecondPassPercent * total_fields
       ELSE 0 >= SecondPassPercent
    /\ missing_count > 0

\* ------------------------------------------------------------------------
\* The focused prompt of the second pass
\* ------------------------------------------------------------------------

\* variant: every missing field is included, whatever its group
ShouldIncludeAlways(field_key, extracted_fields, active_groups) == TRUE

\* should_include of one missing field
ShouldInclude(field_key, extracted_fields, active_groups) ==
    ~\E i \in 1..Len(active_groups) :
        /\ field_key \in Range(active_groups[i].v)
        /\ \E group_field \in Range(active_groups[i].v) : Has(extracted_fields, group_field)

FilteredMissing(missing_fields, extracted_fields, active_groups) ==
    SelectSeq(missing_fields,
              LAMBDA e : ShouldInclude(e.k, extracted_fields, active_groups))

\* the prompt, as the clean keys it lists; none listed is the
\* "Return empty JSON object: {}" prompt
create_focused_missing_fields_prompt(missing_fields, extracted_fields, active_groups) ==
    LET filtered_missing == FilteredMissing(missing_fields, extracted_fields, active_groups)
        priority_missing ==
            SubSeq(filtered_missing, 1,
                   IF Len(filtered_missing) < MaxPriorityFields
                   THEN Len(filtered_missing) ELSE MaxPriorityFields)
    IN  [i \in 1..Len(priority_missing) |-> StripBraces(priority_missing[i].k)]

\* ------------------------------------------------------------------------
\* Inputs: templates (catalogue and the keys the service may answer with)
\* and the reply objects of the generative-text service
\* ------------------------------------------------------------------------

\* a text field, a checkbox pair forming the gender group
SexCatalogue ==
    <<DictField(<<"{","m","a","l","e","}">>, <<"M","a","l","e">>,
                <<"c","h","e","c","k","b","o","x">>),
      DictField(<<"{","f","e","m","a","l","e","}">>, <<"F","e","m","a","l","e">>,
                <<"c","h","e","c","k","b","o","x">>),
      PlainField(<<"{","n","a","m","e","}">>,
                 <<"f","u","l","l"," ","n","a","m","e">>)>>

\* keys in mixed case with an underscore; {At_1} matches a keyword rule and
\* a key-pattern rule
MixedCatalogue ==
    <<DictField(<<"{","A","t","_","1","}">>, <<"M","a","l","e"," ","c","h","e","c","k">>,
                <<>>),
      DictField(<<"{","a","t","2","}">>, <<"N","u","r","s","e">>,
                <<"c","h","e","c","k","b","o","x">>),
      DictField(<<"{","S","e","x","}">>, <<"S","e","x">>,
                <<"c","h","e","c","k","b","o","x"," ","m","a","r","k">>)>>

\* keys written without braces, a yes/no pair
PlainKeyCatalogue ==
    <<DictField(<<"l","y">>, <<"Y","e","s">>,
                <<"c","h","e","c","k","b","o","x"," ","w","i","t","h","i","n"," ",
                  "c","i","t","y"," ","l","i","m","i","t","s">>),
      DictField(<<"l","n">>, <<"N","o">>,
                <<"c","h","e","c","k","b","o","x"," ","w","i","t","h","i","n"," ",
                  "c","i","t","y"," ","l","i","m","i","t","s">>)>>

EmptyCatalogue == <<>>

\* number of fields of the large catalogue
BigCatalogueFields == 20

BigKey(i) == <<"{","f">> \o IntStr(i) \o <<"}">>

BigCatalogue ==
    [i \in 1..BigCatalogueFields |->
        DictField(BigKey(i), <<"F","i","e","l","d"," ">> \o IntStr(i), <<"t","e","x","t">>)]

Templates ==
    {[catalogue |-> SexCatalogue,
      reply_keys |-> <<<<"m","a","l","e">>, <<"f","e","m","a","l","e">>,
                       <<"n","a","m","e">>>>],
     [catalogue |-> MixedCatalogue,
      reply_keys |-> <<<<"a","t","_","1">>, <<"A","t","_","1">>,
                       <<"a","t","2">>, <<"S","E","X">>>>],
     [catalogue |-> PlainKeyCatalogue,
      reply_keys |-> <<<<"l","y">>, <<"l","n">>>>],
     [catalogue |-> EmptyCatalogue,
      reply_keys |-> <<<<"o","t","h","e","r">>>>],
     [catalogue |-> BigCatalogue,
      reply_keys |-> <<StripBraces(BigKey(1)),
                       StripBraces(BigKey(MaxPriorityFields + 1)),
                       StripBraces(BigKey(BigCatalogueFields))>>]}

\* values a reply gives: "", " ", "X " and 7
ReplyValues == {JStr(<<>>), JStr(<<" ">>), JStr(<<"X"," ">>), JInt(7)}

RECURSIVE Ascending(_)
Ascending(S) ==
    IF S = {} THEN <<>>
    ELSE LET m == CHOOSE x \in S : \A y \in S : x <= y
         IN  <<m>> \o Ascending(S \ {m})

\* the objects with at most n of the keys, every key with any reply value
Objects(keys, n) ==
    UNION {{LET idx == Ascending(S)
            IN  [i \in 1..Len(idx) |-> [k |-> keys[idx[i]], v |-> f[idx[i]]]]
            : f \in [S -> ReplyValues]}
           : S \in {T \in SUBSET (1..Len(keys)) : Cardinality(T) <= n}}

\* the object that gives "X " for the first n fields of the catalogue
PrefixObject(cat, n) ==
    [i \in 1..n |-> [k |-> StripBraces(cat[i].key), v |-> JStr(<<"X"," ">>)]]

ReplyObjects(cat, keys, n) ==
    Objects(keys, n) \cup {PrefixObject(cat, i) : i \in 0..Len(cat)}

\* the reply texts that hold one of the objects, and the ones that hold none
ReplyTexts(objs) ==
    {[kind |-> kd, obj |-> o, len |-> RawPreviewChars]
        : kd \in ParsableKinds, o \in objs \ {<<>>}}
    \cup
    {[kind |-> kd, obj |-> <<>>, len |-> n]
        : kd \in ParsableKinds \cup UnparsableKinds,
          n \in {RawPreviewChars - 1, RawPreviewChars, RawPreviewChars + 1}}

\* ------------------------------------------------------------------------
\* Numbers of the layout engine: Python floats, taken as exact rationals
\* [n, d] in lowest terms with d > 0
\* ------------------------------------------------------------------------

IAbs(i) == IF i < 0 THEN -i ELSE i

RECURSIVE Gcd(_, _)
Gcd(a, b) == IF b = 0 THEN a ELSE Gcd(b, a % b)

\* the rational n/d, d # 0
R(n, d) ==
    LET g == Gcd(IAbs(n), IAbs(d))
        sign == IF d < 0 THEN -1 ELSE 1
    IN  [n |-> sign * (n \div g), d |-> sign * (d \div g)]

RInt(i) == [n |-> i, d |-> 1]

RAdd(a, b) == R(a.n * b.d + b.n * a.d, a.d * b.d)

RSub(a, b) == R(a.n * b.d - b.n * a.d, a.d * b.d)

RMul(a, b) == R(a.n * b.n, a.d * b.d)

\* a / b, b # 0
RDiv(a, b) == R(a.n * b.d, a.d * b.n)

RLe(a, b) == a.n * b.d <= b.n * a.d

RLt(a, b) == a.n * b.d < b.n * a.d

\* min(a, b) and max(a, b)
RMin(a, b) == IF RLe(a, b) THEN a ELSE b

RMax(a, b) == IF RLe(b, a) THEN a ELSE b

\* abs(a)
RAbs(a) == [n |-> IAbs(a.n), d |-> a.d]

\* ------------------------------------------------------------------------
\* ocr_service.py: geometry and typography
\* ------------------------------------------------------------------------

\* page_height * (1 - y_coord)
convert_coordinates(y_coord, page_height) ==
    RMul(page_height, RSub(RInt(1), y_coord))

\* the multiplier of the if/elif chain over entity_type
TypeScale(entity_type) ==
    IF entity_type = "chat_time" \/ entity_type = "chat_label" THEN R(1, 2)
    ELSE IF entity_type = "audience_name" THEN R(7, 10)
    ELSE IF entity_type = "MessengerTextBox" THEN R(6, 10)
    ELSE RInt(1)

\* variant: the size is returned as computed, without the two limits
calculate_font_size_unclamped(page_height, box_height, entity_type, text_lines_count) ==
    LET base_size == RDiv(page_height, RInt(40))
        box_scale == RMin(RInt(1), RDiv(box_height, RMul(page_height, R(1, 10))))
        line_scale == IF text_lines_count = 1 THEN RInt(1) ELSE R(9, 10)
    IN  RMul(RMul(RMul(base_size, box_scale), line_scale), TypeScale(entity_type))

calculate_font_size(page_height, box_height, entity_type, text_lines_count) ==
    LET base_size == RDiv(page_height, RInt(40))
        box_scale == RMin(RInt(1), RDiv(box_height, RMul(page_height, R(1, 10))))
        line_scale == IF text_lines_count = 1 THEN RInt(1) ELSE R(9, 10)
        font_size == RMul(RMul(RMul(base_size, box_scale), line_scale),
                          TypeScale(entity_type))
        min_size == RDiv(page_height, RInt(80))
        max_size == RDiv(page_height, RInt(30))
    IN  RMax(min_size, RMin(font_size, max_size))

\* text.split("\n")
RECURSIVE Split(_)
Split(text) ==
    IF \E i \in 1..Len(text) : text[i] = "\n"
    THEN LET i == CHOOSE j \in 1..Len(text) :
                    text[j] = "\n" /\ \A k \in 1..(j - 1) : text[k] # "\n"
         IN  <<SubSeq(text, 1, i - 1)>> \o Split(SubSeq(text, i + 1, Len(text)))
    ELSE <<text>>

\* ------------------------------------------------------------------------
\* ocr_service.py: process_document_for_layout
\*
\* A Document AI document is [pages, entities]; a page is [dimension, text]
\* (text: what its layout's text segments select from document.text), an
\* entity is [type_, text, confidence, id, anchored, page, has_bounding_poly,
\* normalized_vertices], anchored telling whether page_anchor.page_refs is
\* not empty and the last three being the fields of page_refs[0].
\* ------------------------------------------------------------------------

\* fallback page size, and the size of reportlab's letter page
DefaultPageWidth == 612

DefaultPageHeight == 792

\* variant: the polygon is kept whatever the number of its vertices
BoundingPolyOfAnyLength(entity) ==
    IF entity.anchored /\ entity.has_bounding_poly
    THEN [present |-> TRUE, vertices |-> entity.normalized_vertices]
    ELSE [present |-> FALSE, vertices |-> <<>>]

\* bounding_poly of one entity: None (present = FALSE) unless the first page
\* reference has a polygon of four or more vertices
BoundingPolyOf(entity) ==
    IF entity.anchored /\ entity.has_bounding_poly
       /\ Len(entity.normalized_vertices) >= 4
    THEN [present |-> TRUE, vertices |-> entity.normalized_vertices]
    ELSE [present |-> FALSE, vertices |-> <<>>]

\* entity_data of one entity
EntityData(entity) ==
    [type |-> entity.type_,
     text |-> Strip(entity.text),
     confidence |-> entity.confidence,
     bounding_poly |-> BoundingPolyOf(entity),
     id |-> entity.id]

\* page_entities[i]: the anchored entities whose page index is i (0-based),
\* in the order of document.entities
PageEntities(document, i) ==
    SelectSeq(document.entities,
              LAMBDA entity : entity.anchored /\ entity.page = i
                              /\ 0 <= i /\ i < Len(document.pages))

\* the page size: the frontend's when both are given, else the dimension of
\* the first page, else the fallback
ActualPageSize(document, frontend_page_width, frontend_page_height) ==
    IF frontend_page_width.n # 0 /\ frontend_page_height.n # 0
    THEN [width |-> frontend_page_width, height |-> frontend_page_height]
    ELSE IF Len(document.pages) > 0
    THEN document.pages[1].dimension
    ELSE [width |-> RInt(DefaultPageWidth), height |-> RInt(DefaultPageHeight)]

process_document_for_layout(document, frontend_page_width, frontend_page_height) ==
    LET actual == ActualPageSize(document, frontend_page_width, frontend_page_height)
    IN  [document_info |->
            [total_pages |-> Len(document.pages),
             mime_type |-> "application/pdf",
             page_width |-> actual.width,
             page_height |-> actual.height],
         pages |->
            [i \in 1..Len(document.pages) |->
                LET p_entities == PageEntities(document, i - 1)
                IN  [page_number |-> i,
                     entities |-> [j \in 1..Len(p_entities) |-> EntityData(p_entities[j])],
                     text |-> document.pages[i].text]]]

\* ------------------------------------------------------------------------
\* ocr_service.py: what both renderers do first with the entities of a page
\* ------------------------------------------------------------------------

\* [e for e in page_layout["entities"] if e.get("bounding_poly")]
Renderable(entities) == SelectSeq(entities, LAMBDA e : e.bounding_poly.present)

\* variant: an entity is put before the entities of the same top y
RECURSIVE InsertByYUnstable(_, _)
InsertByYUnstable(sorted, e) ==
    IF sorted = <<>> THEN <<e>>
    ELSE LET last == sorted[Len(sorted)]
         IN  IF RLt(last.bounding_poly.vertices[1].y, e.bounding_poly.vertices[1].y)
             THEN Append(sorted, e)
             ELSE Append(InsertByYUnstable(SubSeq(sorted, 1, Len(sorted) - 1), e), last)

\* list.sort(key=...) on top y: stable, ascending
RECURSIVE InsertByY(_, _)
InsertByY(sorted, e) ==
    IF sorted = <<>> THEN <<e>>
    ELSE LET last == sorted[Len(sorted)]
         IN  IF RLe(last.bounding_poly.vertices[1].y, e.bounding_poly.vertices[1].y)
             THEN Append(sorted, e)
             ELSE Append(InsertByY(SubSeq(sorted, 1, Len(sorted) - 1), e), last)

RECURSIVE SortByY(_, _)
SortByY(entities, n) ==
    IF n = 0 THEN <<>> ELSE InsertByY(SortByY(entities, n - 1), entities[n])

\* the sort key vertices[0]["y"] raises IndexError on an empty vertex list
SortRaises(entities) ==
    \E i \in 1..Len(entities) : Len(entities[i].bounding_poly.vertices) = 0

\* vertices[3] raises IndexError on fewer than four vertices
VerticesRaise(entity) == Len(entity.bounding_poly.vertices) < 4

\* ------------------------------------------------------------------------
\* ocr_service.py: the box and the typography of one entity, computed by
\* the same statements in create_styled_pdf_from_layout (lines 102-158) and
\* in create_styled_json_from_layout (lines 414-466, 508-512) from the
\* page coordinates c = [x1, y1, .., x4, y4] each of them makes
\* ------------------------------------------------------------------------

\* box_width, box_height, box_x (x1) and box_y
Box(c) ==
    [box_width |-> RSub(c.x2, c.x1),
     box_height |-> RAbs(RSub(c.y1, c.y4)),
     box_x |-> c.x1,
     box_y |-> RMin(RMin(c.y1, c.y2), RMin(c.y3, c.y4))]

\* base_padding, times 1.2 for a message box
TextPadding(font_size, entity_type) ==
    IF entity_type # "MessengerTextBox" THEN RMul(font_size, R(1, 2))
    ELSE RMul(RMul(font_size, R(1, 2)), R(12, 10))

\* variant: the line pitch is font_size * line_spacing whatever the box
LineHeightUnshrunk(font_size, text_padding, box_height, line_count) ==
    RMul(font_size, R(12, 10))

\* min(font_size * line_spacing, (box_height - 2 * text_padding) / line_count)
LineHeight(font_size, text_padding, box_height, line_count) ==
    RMin(RMul(font_size, R(12, 10)),
         RDiv(RSub(box_height, RMul(RInt(2), text_padding)), RInt(line_count)))

\* box_y + vertical_space/2 + total_text_height - text_padding, where
\* total_text_height = line_height * line_count and
\* vertical_space = box_height - total_text_height
TextY(box, line_height, line_count, text_padding) ==
    RSub(RAdd(RAdd(box.box_y,
                   RDiv(RSub(box.box_height, RMul(line_height, RInt(line_count))),
                        RInt(2))),
              RMul(line_height, RInt(line_count))),
         text_padding)

NoBackground ==
    [present |-> FALSE, border_radius |-> RInt(0), expanded_x |-> RInt(0),
     expanded_y |-> RInt(0), expanded_width |-> RInt(0), expanded_height |-> RInt(0)]

\* variant: the background of a message box is the raw box
BackgroundUnpadded(entity_type, font_size, text_padding, box) ==
    IF entity_type = "MessengerTextBox"
    THEN [present |-> TRUE,
          border_radius |-> RMin(RMul(font_size, R(1, 2)), RInt(8)),
          expanded_x |-> box.box_x,
          expanded_y |-> box.box_y,
          expanded_width |-> box.box_width,
          expanded_height |-> box.box_height]
    ELSE NoBackground

\* radius and the expanded box of a message box
Background(entity_type, font_size, text_padding, box) ==
    IF entity_type = "MessengerTextBox"
    THEN [present |-> TRUE,
          border_radius |-> RMin(RMul(font_size, R(1, 2)), RInt(8)),
          expanded_x |-> RSub(box.box_x, text_padding),
          expanded_y |-> RSub(box.box_y, text_padding),
          expanded_width |-> RAdd(box.box_width, RMul(RInt(2), text_padding)),
          expanded_height |-> RAdd(box.box_height, RMul(RInt(2), text_padding))]
    ELSE NoBackground

TypographyOfLineHeight(entity_type, box, line_count, font_size, text_padding,
                       line_height) ==
    [font_size |-> font_size,
     text_padding |-> text_padding,
     line_height |-> line_height,
     text_y |-> TextY(box, line_height, line_count, text_padding),
     background |-> Background(entity_type, font_size, text_padding, box)]

TypographyOfPadding(entity_type, box, line_count, font_size, text_padding) ==
    TypographyOfLineHeight(entity_type, box, line_count, font_size, text_padding,
        LineHeight(font_size, text_padding, box.box_height, line_count))

TypographyOfFont(entity_type, box, line_count, font_size) ==
    TypographyOfPadding(entity_type, box, line_count, font_size,
                        TextPadding(font_size, entity_type))

\* font_size, text_padding, line_height, text_y and the background of an
\* entity of line_count lines in box on a page page_height high
Typography(page_height, entity_type, box, line_count) ==
    TypographyOfFont(entity_type, box, line_count,
        calculate_font_size(page_height, box.box_height, entity_type, line_count))

\* ------------------------------------------------------------------------
\* ocr_service.py: create_styled_json_from_layout
\* (the colors of an entity, fixed by its type, are left out of the records)
\* ------------------------------------------------------------------------

\* x = vertex x * page_width, y = vertex y * page_height
JsonCoordinates(vertices, page_width, page_height) ==
    [x1 |-> RMul(vertices[1].x, page_width), y1 |-> RMul(vertices[1].y, page_height),
     x2 |-> RMul(vertices[2].x, page_width), y2 |-> RMul(vertices[2].y, page_height),
     x3 |-> RMul(vertices[3].x, page_width), y3 |-> RMul(vertices[3].y, page_height),
     x4 |-> RMul(vertices[4].x, page_width), y4 |-> RMul(vertices[4].y, page_height)]

\* the dict styled_entity
StyledEntityOf(entity, c, box, text_lines, t) ==
    [type |-> entity.type,
     text |-> entity.text,
     confidence |-> entity.confidence,
     id |-> entity.id,
     bounding_poly |-> entity.bounding_poly,
     styling |->
        [font_size |-> t.font_size,
         font_family |-> IF entity.type = "audience_name"
                         THEN "Helvetica-Bold" ELSE "Helvetica",
         text_alignment |-> IF entity.type \in {"chat_time", "chat_label"}
                            THEN "center" ELSE "left",
         line_spacing |-> R(12, 10),
         line_height |-> t.line_height,
         text_padding |-> t.text_padding,
         text_lines |-> text_lines,
         line_count |-> Len(text_lines),
         background |-> t.background],
     dimensions |->
        [box_width |-> box.box_width,
         box_height |-> box.box_height,
         box_x |-> box.box_x,
         box_y |-> box.box_y,
         text_y |-> t.text_y,
         coordinates |-> c]]

StyledEntityOfBox(entity, c, box, text_lines, page_height) ==
    StyledEntityOf(entity, c, box, text_lines,
                   Typography(page_height, entity.type, box, Len(text_lines)))

StyledEntityOfCoordinates(entity, c, page_height) ==
    StyledEntityOfBox(entity, c, Box(c), Split(entity.text), page_height)

\* styled_entity of one entity with four or more vertices
StyledEntity(entity, page_width, page_height) ==
    StyledEntityOfCoordinates(entity,
        JsonCoordinates(entity.bounding_poly.vertices, page_width, page_height),
        page_height)

\* variant: page_layout["entities"] itself is filtered and sorted
SortedInPlace(page_layout, filtered) ==
    IF SortRaises(filtered) THEN page_layout
    ELSE [page_layout EXCEPT !.entities = SortByY(filtered, Len(filtered))]

\* page_layout after the page is rendered: the list that is sorted is a new
\* list (filtered), page_layout["entities"] is left as it was
AfterSort(page_layout, filtered) == page_layout

StyledPageOf(page_layout, filtered, raises, page_width, page_height) ==
    [raised |-> raises,
     styled_page |->
        IF raises THEN [page_number |-> 0, text |-> <<>>, entities |-> <<>>]
        ELSE [page_number |-> page_layout.page_number,
              text |-> page_layout.text,
              entities |-> [i \in 1..Len(filtered) |->
                               StyledEntity(SortByY(filtered, Len(filtered))[i],
                                            page_width, page_height)]],
     page_layout |-> AfterSort(page_layout, filtered)]

StyledPageOfFiltered(page_layout, filtered, page_width, page_height) ==
    StyledPageOf(page_layout, filtered,
                 SortRaises(filtered)
                 \/ \E i \in 1..Len(filtered) : VerticesRaise(filtered[i]),
                 page_width, page_height)

\* one iteration of the loop over layout_data["pages"]:
\* [raised, styled_page, page_layout]
StyledPage(page_layout, page_width, page_height) ==
    StyledPageOfFiltered(page_layout, Renderable(page_layout.entities),
                         page_width, page_height)

NoDocumentInfo ==
    [total_pages |-> 0, mime_type |-> "", page_width |-> RInt(0),
     page_height |-> RInt(0)]

\* the styled layout of the pages done, or the exception of one of them
StyledLayoutOf(layout_data, done) ==
    [raised |-> \E i \in 1..Len(done) : done[i].raised,
     styled_layout |->
        IF \E i \in 1..Len(done) : done[i].raised
        THEN [document_info |-> NoDocumentInfo, pages |-> <<>>]
        ELSE [document_info |-> layout_data.document_info,
              pages |-> [i \in 1..Len(done) |-> done[i].styled_page]],
     layout_data |->
        [layout_data EXCEPT
            !.pages = [i \in 1..Len(done) |->
                          IF \E j \in 1..(i - 1) : done[j].raised
                          THEN layout_data.pages[i]
                          ELSE done[i].page_layout]]]

\* [raised, styled_layout, layout_data]: the exception of a page leaves the
\* function; layout_data is the argument as the call leaves it
create_styled_json_from_layout(layout_data) ==
    StyledLayoutOf(layout_data,
        [i \in 1..Len(layout_data.pages) |->
            StyledPage(layout_data.pages[i], layout_data.document_info.page_width,
                       layout_data.document_info.page_height)])

\* ------------------------------------------------------------------------
\* ocr_service.py: create_styled_pdf_from_layout
\*
\* A page surface is the sequence of what is drawn for each entity.  The
\* canvas keeps the font of the last setFont call; font.set = FALSE is the
\* font a new canvas starts with.  unmeasurable is the set of lines for
\* which canvas.stringWidth raises.
\* ------------------------------------------------------------------------

InitialFont == [set |-> FALSE, name |-> "", size |-> RInt(0)]

\* the font of the canvas after the if/elif chain over the entity type
FontAfter(font, entity_type, font_size) ==
    IF entity_type = "chat_time" \/ entity_type = "chat_label" THEN font
    ELSE IF entity_type = "audience_name"
    THEN [set |-> TRUE, name |-> "Helvetica-Bold", size |-> font_size]
    ELSE [set |-> TRUE, name |-> "Helvetica", size |-> font_size]

\* c.stringWidth(line, 'Helvetica', font_size) is called for the lines of
\* timestamps and labels only
MeasureRaises(entity, unmeasurable) ==
    /\ entity.type \in {"chat_time", "chat_label"}
    /\ \E line \in Range(Split(entity.text)) : line \in unmeasurable

\* x = vertex x * page_width, y = convert_coordinates(vertex y, page_height)
PdfCoordinates(vertices, page_width, page_height) ==
    [x1 |-> RMul(vertices[1].x, page_width),
     y1 |-> convert_coordinates(vertices[1].y, page_height),
     x2 |-> RMul(vertices[2].x, page_width),
     y2 |-> convert_coordinates(vertices[2].y, page_height),
     x3 |-> RMul(vertices[3].x, page_width),
     y3 |-> convert_coordinates(vertices[3].y, page_height),
     x4 |-> RMul(vertices[4].x, page_width),
     y4 |-> convert_coordinates(vertices[4].y, page_height)]

\* what is drawn for one entity: the box and the font values the drawing
\* calls are given, font being the font of the canvas when its lines are drawn
DrawnEntityOf(entity, font, box, text_lines, t) ==
    [type |-> entity.type,
     text_lines |-> text_lines,
     line_count |-> Len(text_lines),
     font_size |-> t.font_size,
     font |-> FontAfter(font, entity.type, t.font_size),
     text_padding |-> t.text_padding,
     line_height |-> t.line_height,
     box_x |-> box.box_x,
     box_y |-> box.box_y,
     box_width |-> box.box_width,
     box_height |-> box.box_height,
     text_y |-> t.text_y,
     background |-> t.background]

DrawnEntityOfBox(entity, font, box, text_lines, page_height) ==
    DrawnEntityOf(entity, font, box, text_lines,
                  Typography(page_height, entity.type, box, Len(text_lines)))

\* one iteration of "for entity in entities" on the letter page
DrawnEntity(entity, font) ==
    DrawnEntityOfBox(entity, font,
        Box(PdfCoordinates(entity.bounding_poly.vertices, RInt(DefaultPageWidth),
                           RInt(DefaultPageHeight))),
        Split(entity.text), RInt(DefaultPageHeight))

\* the surface after one more entity is drawn
Drawn(before, d) ==
    [raised |-> FALSE, drawn |-> Append(before.drawn, d), font |-> d.font]

\* the surface after the iteration of entity, unless it raises
DrawnAfter(before, entity, unmeasurable) ==
    IF before.raised \/ VerticesRaise(entity) \/ MeasureRaises(entity, unmeasurable)
    THEN [raised |-> TRUE, drawn |-> <<>>, font |-> InitialFont]
    ELSE Drawn(before, DrawnEntity(entity, before.font))

\* the loop "for entity in entities", entities 1..n done: an exception of
\* one iteration leaves the loop
RECURSIVE DrawEntities(_, _, _)
DrawEntities(entities, n, unmeasurable) ==
    IF n = 0 THEN [raised |-> FALSE, drawn |-> <<>>, font |-> InitialFont]
    ELSE DrawnAfter(DrawEntities(entities, n - 1, unmeasurable), entities[n],
                    unmeasurable)

\* one iteration of the loop over layout_data["pages"]: [raised, drawn]
DrawnPageOf(filtered, unmeasurable) ==
    IF SortRaises(filtered) THEN [raised |-> TRUE, drawn |-> <<>>, font |-> InitialFont]
    ELSE DrawEntities(SortByY(filtered, Len(filtered)), Len(filtered), unmeasurable)

DrawnPage(page_layout, unmeasurable) ==
    DrawnPageOf(Renderable(page_layout.entities), unmeasurable)

\* merged_pdf after one more page is saved and inserted
Inserted(before, page) ==
    IF before.raised \/ page.raised
    THEN [raised |-> TRUE, pages |-> <<>>]
    ELSE [raised |-> FALSE, pages |-> Append(before.pages, page.drawn)]

\* the loop over layout_data["pages"], pages 1..n done: an exception leaves
\* the function
RECURSIVE DrawPages(_, _, _)
DrawPages(pages, n, unmeasurable) ==
    IF n = 0 THEN [raised |-> FALSE, pages |-> <<>>]
    ELSE Inserted(DrawPages(pages, n - 1, unmeasurable),
                  DrawnPage(pages[n], unmeasurable))

\* merged_pdf.save(buffer): PyMuPDF refuses to save a document that has no
\* page ("cannot save with zero pages")
SaveRaises(merged_pdf) == Len(merged_pdf) = 0

\* the saved document, or the exception
Saved(done) ==
    IF done.raised
    THEN [raised |-> TRUE, error |-> "rendering", pages |-> <<>>]
    ELSE IF SaveRaises(done.pages)
    THEN [raised |-> TRUE, error |-> "cannot save with zero pages", pages |-> <<>>]
    ELSE [raised |-> FALSE, error |-> "", pages |-> done.pages]

\* [raised, error, pages]: pages is the merged document, one surface a page
create_styled_pdf_from_layout(layout_data, unmeasurable) ==
    Saved(DrawPages(layout_data.pages, Len(layout_data.pages), unmeasurable))

\* ------------------------------------------------------------------------
\* State of one run of extract_values_from_document_with_template
\* ------------------------------------------------------------------------

VARIABLES
    pc,               \* position of the run in the function body
    placeholder_json, \* the catalogue of the template
    reply_keys,       \* keys the service may use in its reply objects
    active_groups,    \* group name -> member keys
    calls,            \* generate_content calls issued so far, in order
    in_flight,        \* calls issued and not yet returned or raised
    pass1_outcome,    \* "none", "parsed", "unparsable" or "raised"
    initial_response_text, \* the pass-1 reply text in which no object was found
    raw_extracted,    \* the parsed pass-1 reply
    refined_json,     \* the map step 6 reads
    refine_outcome,   \* "none", "refined", "unparsable" or "raised"
    extracted,        \* key -> [label, value]
    missing,          \* key -> [label, value]
    built,            \* extracted and missing as step 6 left them
    focused_prompt,   \* clean keys listed by the pass-2 prompt
    second_extracted, \* the parsed pass-2 reply
    merge_index,      \* next item of second_extracted.items() to merge
    pass2_outcome,    \* "none", "merged", "unparsable" or "raised"
    result,           \* the returned dict
    raised,           \* message of the exception the function raised, or ""
    trace             \* reconciler states entered so far, in order

\* the layout pipeline of ocr_service.py
VARIABLES
    lpc,              \* "parked", "document" (not yet processed) or "layout"
    document,         \* the Document AI document
    frontend,         \* page size given by the frontend, 0 for None
    unmeasurable,     \* lines for which canvas.stringWidth raises
    layout_data,      \* result of process_document_for_layout
    styled_jsons,     \* outcomes of the create_styled_json_from_layout calls
    styled_pdf        \* outcome of the create_styled_pdf_from_layout call

\* one entity measured on its own
VARIABLES
    measure,          \* page height, top y, bottom y, entity type, line count
    measured          \* box height and font size computed from measure

\* runs on the shared service instance
VARIABLES
    service,          \* attributes of the TemplateOCRService singleton
    runs              \* locals of each run of the extraction method

\* apply_radio_button_logic called on its own
VARIABLES
    radio_args,       \* the dicts extracted, missing and active_groups given
    radio_ret         \* the returned tuple and the given dicts after the call

run_vars == <<pc, placeholder_json, reply_keys, active_groups, calls, in_flight,
          pass1_outcome, initial_response_text, raw_extracted, refined_json, refine_outcome, extracted, missing,
          built, focused_prompt, second_extracted, merge_index, pass2_outcome,
          result, raised, trace>>

layout_vars == <<lpc, document, frontend, unmeasurable, layout_data, styled_jsons,
                 styled_pdf>>

measure_vars == <<measure, measured>>

shared_vars == <<service, runs>>

radio_vars == <<radio_args, radio_ret>>

\* what a run of the reconciler alone leaves as it is
others == <<layout_vars, measure_vars, shared_vars, radio_vars>>

vars == <<run_vars, others>>

inputs == <<placeholder_json, reply_keys>>

pass1 == <<pass1_outcome, initial_response_text>>

NoText == [kind |-> "", obj |-> <<>>, len |-> 0]

NoPreview == [of |-> NoText, chars |-> 0, dots |-> FALSE]

\* no dict returned (yet)
NoResult ==
    [keys |-> {}, error |-> "", cause |-> "", raw_response |-> NoPreview,
     extracted_ocr |-> <<>>, missing_value_keys |-> <<>>, success |-> FALSE]

\* placeholder_json as a dict: key -> field_info
CatalogueDict(cat) == [i \in 1..Len(cat) |-> [k |-> cat[i].key, v |-> cat[i]]]

\* variant: the reply text is left out of the dict
UnparsableResultWithoutRaw(cat, text) ==
    [keys |-> {"template_id", "error", "extracted_ocr", "missing_value_keys"},
     error |-> "Could not extract valid JSON from Gemini initial response",
     cause |-> "",
     raw_response |-> NoPreview,
     extracted_ocr |-> <<>>,
     missing_value_keys |-> CatalogueDict(cat),
     success |-> FALSE]

\* the dict returned when the pass-1 reply holds no JSON object
UnparsableResult(cat, text) ==
    [keys |-> {"template_id", "error", "raw_response", "extracted_ocr",
               "missing_value_keys"},
     error |-> "Could not extract valid JSON from Gemini initial response",
     cause |-> "",
     raw_response |-> RawPreview(text),
     extracted_ocr |-> <<>>,
     missing_value_keys |-> CatalogueDict(cat),
     success |-> FALSE]

\* variant: the failure dict reports no missing field
FailureResultWithoutCatalogue(cat, e) ==
    [keys |-> {"template_id", "error", "extracted_ocr", "missing_value_keys",
               "success"},
     error |-> "Error processing with Gemini: ",
     cause |-> e,
     raw_response |-> NoPreview,
     extracted_ocr |-> <<>>,
     missing_value_keys |-> <<>>,
     success |-> FALSE]

\* the dict returned by the handler "except Exception as e" of step 4
FailureResult(cat, e) ==
    [keys |-> {"template_id", "error", "extracted_ocr", "missing_value_keys",
               "success"},
     error |-> "Error processing with Gemini: ",
     cause |-> e,
     raw_response |-> NoPreview,
     extracted_ocr |-> <<>>,
     missing_value_keys |-> CatalogueDict(cat),
     success |-> FALSE]

\* the dict returned at the end of step 7
SuccessResult(extracted_ocr, missing_value_keys) ==
    [keys |-> {"template_id", "doc_type", "variation", "extracted_ocr",
               "missing_value_keys", "styled_pdf", "styled_json", "success"},
     error |-> "",
     cause |-> "",
     raw_response |-> NoPreview,
     extracted_ocr |-> extracted_ocr,
     missing_value_keys |-> missing_value_keys,
     success |-> TRUE]

NotBuilt == [done |-> FALSE, extracted |-> <<>>, missing |-> <<>>]

NoDocument == [pages |-> <<>>, entities |-> <<>>]

NoFrontend == [width |-> RInt(0), height |-> RInt(0)]

NoLayout == [document_info |-> NoDocumentInfo, pages |-> <<>>]

NoPdf == [called |-> FALSE, raised |-> FALSE, error |-> "", pages |-> <<>>]

\* no document is in the layout pipeline
LayoutParked ==
    /\ lpc = "parked"
    /\ document = NoDocument
    /\ frontend = NoFrontend
    /\ unmeasurable = {}
    /\ layout_data = NoLayout
    /\ styled_jsons = <<>>
    /\ styled_pdf = NoPdf

NoMeasure ==
    [page_height |-> RInt(0), y1 |-> RInt(0), y4 |-> RInt(0), entity_type |-> "",
     text_lines_count |-> 0]

NotMeasured == [done |-> FALSE, box_height |-> RInt(0), font_size |-> RInt(0)]

MeasureParked ==
    /\ measure = NoMeasure
    /\ measured = NotMeasured

\* self.gemini_model, self.gemini (configured) and self.placeholder_re, as
\* __init__ sets them
ServiceInit ==
    [gemini_model |-> "gemini-2.5-flash", gemini |-> TRUE,
     placeholder_re |-> "\\{(.*?)\\}"]

\* the singleton is constructed and no concurrent run is started
SharedParked ==
    /\ service = ServiceInit
    /\ runs = <<>>

NoRadioArgs == [extracted |-> <<>>, missing |-> <<>>, active_groups |-> <<>>]

NotReturned ==
    [done |-> FALSE, extracted |-> <<>>, updated_missing |-> <<>>,
     extracted_after |-> <<>>, missing_after |-> <<>>]

\* apply_radio_button_logic is not called on its own
RadioParked ==
    /\ radio_args = NoRadioArgs
    /\ radio_ret = NotReturned

Init ==
    /\ LayoutParked
    /\ MeasureParked
    /\ SharedParked
    /\ RadioParked
    /\ \E t \in Templates :
        /\ placeholder_json = t.catalogue
        /\ reply_keys = t.reply_keys
    /\ pc = "start"
    /\ active_groups = <<>>
    /\ calls = <<>>
    /\ in_flight = {}
    /\ pass1_outcome = "none"
    /\ initial_response_text = NoText
    /\ raw_extracted = <<>>
    /\ refined_json = <<>>
    /\ refine_outcome = "none"
    /\ extracted = <<>>
    /\ missing = <<>>
    /\ built = NotBuilt
    /\ focused_prompt = <<>>
    /\ second_extracted = <<>>
    /\ merge_index = 0
    /\ pass2_outcome = "none"
    /\ result = NoResult
    /\ raised = ""
    /\ trace = <<"INIT">>

\* return of the failure dict from the handler of step 4
ReturnFailure(e) ==
    /\ result' = FailureResult(placeholder_json, e)
    /\ pc' = "returned"
    /\ in_flight' = {}

\* steps 1-3: fetch the template, infer the groups, rasterize the file.
\* An exception here is re-raised by the outer handler.
Start ==
    /\ pc = "start"
    /\ \/ /\ active_groups' = identify_active_radio_groups(placeholder_json)
          /\ pc' = "step4"
          /\ UNCHANGED raised
       \/ /\ \E e \in {"Error fetching template", "Unsupported file type",
                       "Failed to process PDF", "Could not process file"} :
                raised' = e
          /\ pc' = "raised"
          /\ UNCHANGED active_groups
    /\ UNCHANGED <<others, inputs, pass1, calls, in_flight, raw_extracted, refined_json,
                   refine_outcome, extracted, missing, built, focused_prompt,
                   second_extracted, merge_index, pass2_outcome, result, trace>>

\* step 4 up to the pass-1 generate_content call
SendPass1 ==
    /\ pc = "step4"
    /\ \/ /\ calls' = Append(calls, "pass1")
          /\ in_flight' = in_flight \cup {"pass1"}
          /\ pc' = "pass1_sent"
          /\ UNCHANGED result
       \/ /\ ReturnFailure("cannot identify image file")
          /\ UNCHANGED calls
    /\ UNCHANGED <<others, inputs, pass1, active_groups, raw_extracted, refined_json,
                   refine_outcome, extracted, missing, built, focused_prompt,
                   second_extracted, merge_index, pass2_outcome, raised, trace>>

\* the pass-1 call (or reading its .text) raises
Pass1Raises ==
    /\ pc = "pass1_sent"
    /\ ReturnFailure("pass-1 call failed")
    /\ pass1_outcome' = "raised"
    /\ UNCHANGED <<others, inputs, initial_response_text, active_groups, calls, raw_extracted, refined_json,
                   refine_outcome, extracted, missing, built, focused_prompt,
                   second_extracted, merge_index, pass2_outcome, raised, trace>>

\* the pass-1 reply arrives and is parsed
Pass1Reply ==
    /\ pc = "pass1_sent"
    /\ \E text \in ReplyTexts(ReplyObjects(placeholder_json, reply_keys, MaxReplyKeys)) :
        LET parsed == extract_json_from_text(text)
        IN  IF Falsy(parsed)
            THEN /\ result' = UnparsableResult(placeholder_json, text)
                 /\ initial_response_text' = text
                 /\ pass1_outcome' = "unparsable"
                 /\ pc' = "returned"
                 /\ UNCHANGED <<raw_extracted, trace>>
            ELSE /\ raw_extracted' = parsed.obj
                 /\ pass1_outcome' = "parsed"
                 /\ pc' = "step5"
                 /\ trace' = Append(trace, "PASS1_EXTRACTED")
                 /\ UNCHANGED <<result, initial_response_text>>
    /\ in_flight' = in_flight \ {"pass1"}
    /\ UNCHANGED <<others, inputs, active_groups, calls, refined_json, refine_outcome,
                   extracted, missing, built, focused_prompt, second_extracted,
                   merge_index, pass2_outcome, raised>>

\* step 5 up to the refinement generate_content call
SendRefine ==
    /\ pc = "step5"
    /\ calls' = Append(calls, "refine")
    /\ in_flight' = in_flight \cup {"refine"}
    /\ pc' = "refine_sent"
    /\ UNCHANGED <<others, inputs, pass1, active_groups, raw_extracted, refined_json,
                   refine_outcome, extracted, missing, built, focused_prompt,
                   second_extracted, merge_index, pass2_outcome, result, raised,
                   trace>>

\* variant: the handler of the refinement call issues the call again
RefineRaisesRetries ==
    /\ pc = "refine_sent"
    /\ calls' = Append(calls, "refine")
    /\ UNCHANGED <<others, inputs, pass1, pc, active_groups, in_flight, raw_extracted,
                   refined_json, refine_outcome, extracted, missing, built,
                   focused_prompt, second_extracted, merge_index, pass2_outcome,
                   result, raised, trace>>

\* variant: the handler of the refinement call leaves refined_json empty
RefineRaisesEmpty ==
    /\ pc = "refine_sent"
    /\ refined_json' = <<>>
    /\ refine_outcome' = "raised"
    /\ in_flight' = in_flight \ {"refine"}
    /\ pc' = "step6"
    /\ trace' = Append(trace, "REFINED")
    /\ UNCHANGED <<others, inputs, pass1, active_groups, calls, raw_extracted, extracted,
                   missing, built, focused_prompt, second_extracted, merge_index,
                   pass2_outcome, result, raised>>

\* the refinement call raises: "using raw extraction"
RefineRaises ==
    /\ pc = "refine_sent"
    /\ refined_json' = raw_extracted
    /\ refine_outcome' = "raised"
    /\ in_flight' = in_flight \ {"refine"}
    /\ pc' = "step6"
    /\ trace' = Append(trace, "REFINED")
    /\ UNCHANGED <<others, inputs, pass1, active_groups, calls, raw_extracted, extracted,
                   missing, built, focused_prompt, second_extracted, merge_index,
                   pass2_outcome, result, raised>>

\* the refinement reply arrives and is parsed
RefineReply ==
    /\ pc = "refine_sent"
    /\ \E refine_response_text \in
            ReplyTexts(ReplyObjects(placeholder_json, reply_keys, MaxRefineKeys)) :
        LET parsed == extract_json_from_text(refine_response_text)
        IN  IF Falsy(parsed)
            THEN /\ refined_json' = raw_extracted
                 /\ refine_outcome' = "unparsable"
            ELSE /\ refined_json' = parsed.obj
                 /\ refine_outcome' = "refined"
    /\ in_flight' = in_flight \ {"refine"}
    /\ pc' = "step6"
    /\ trace' = Append(trace, "REFINED")
    /\ UNCHANGED <<others, inputs, pass1, active_groups, calls, raw_extracted, extracted,
                   missing, built, focused_prompt, second_extracted, merge_index,
                   pass2_outcome, result, raised>>

\* step 6: build extracted and missing from refined_json
BuildMaps ==
    /\ pc = "step6"
    /\ LET new_extracted == BuildExtracted(placeholder_json, refined_json,
                                           Len(placeholder_json))
           new_missing == BuildMissing(placeholder_json, new_extracted,
                                       Len(placeholder_json))
       IN  /\ extracted' = new_extracted
           /\ missing' = new_missing
           /\ built' = [done |-> TRUE, extracted |-> new_extracted,
                        missing |-> new_missing]
    /\ pc' = "check"
    /\ UNCHANGED <<others, inputs, pass1, active_groups, calls, in_flight, raw_extracted,
                   refined_json, refine_outcome, focused_prompt, second_extracted,
                   merge_index, pass2_outcome, result, raised, trace>>

\* the second-pass test; when it holds, the focused prompt is built and the
\* pass-2 generate_content call is issued.  raw_extracted and refined_json
\* are not read after this point.
CheckSecondPass ==
    /\ pc = "check"
    /\ LET total_fields == Len(placeholder_json)
           missing_count == Len(missing)
       IN  IF NeedSecondPass(total_fields, missing_count)
           THEN /\ focused_prompt' =
                      create_focused_missing_fields_prompt(missing, extracted,
                                                           active_groups)
                /\ calls' = Append(calls, "pass2")
                /\ in_flight' = in_flight \cup {"pass2"}
                /\ pc' = "pass2_sent"
                /\ UNCHANGED trace
           ELSE /\ pc' = "reconcile"
                /\ trace' = Append(trace, "SKIP_PASS2")
                /\ UNCHANGED <<focused_prompt, calls, in_flight>>
    /\ raw_extracted' = <<>>
    /\ refined_json' = <<>>
    /\ UNCHANGED <<others, inputs, pass1, active_groups, refine_outcome, extracted, missing,
                   built, second_extracted, merge_index, pass2_outcome, result,
                   raised>>

\* variant: the handler of the pass-2 call skips the radio-button logic
Pass2RaisesSkipsPruning ==
    /\ pc = "pass2_sent"
    /\ pass2_outcome' = "raised"
    /\ in_flight' = in_flight \ {"pass2"}
    /\ pc' = "stats"
    /\ trace' = Append(trace, "PASS2_EXTRACTED")
    /\ UNCHANGED <<others, inputs, pass1, active_groups, calls, raw_extracted, refined_json,
                   refine_outcome, extracted, missing, built, focused_prompt,
                   second_extracted, merge_index, result, raised>>

\* variant: the pass-2 call has no handler of its own, the exception
\* reaches the handler of step 4
Pass2RaisesFailsRun ==
    /\ pc = "pass2_sent"
    /\ pass2_outcome' = "raised"
    /\ ReturnFailure("pass-2 call failed")
    /\ UNCHANGED <<others, inputs, pass1, active_groups, calls, raw_extracted, refined_json,
                   refine_outcome, extracted, missing, built, focused_prompt,
                   second_extracted, merge_index, raised, trace>>

\* the pass-2 call raises: "continuing with initial results"
Pass2Raises ==
    /\ pc = "pass2_sent"
    /\ pass2_outcome' = "raised"
    /\ in_flight' = in_flight \ {"pass2"}
    /\ pc' = "reconcile"
    /\ trace' = Append(trace, "PASS2_EXTRACTED")
    /\ UNCHANGED <<others, inputs, pass1, active_groups, calls, raw_extracted, refined_json,
                   refine_outcome, extracted, missing, built, focused_prompt,
                   second_extracted, merge_index, result, raised>>

\* the pass-2 reply arrives and is parsed
Pass2Reply ==
    /\ pc = "pass2_sent"
    /\ \E second_response_text \in
            ReplyTexts(ReplyObjects(placeholder_json, reply_keys, MaxReplyKeys)) :
        LET parsed == extract_json_from_text(second_response_text)
        IN  IF Falsy(parsed)
            THEN /\ pass2_outcome' = "unparsable"
                 /\ pc' = "reconcile"
                 /\ trace' = Append(trace, "PASS2_EXTRACTED")
                 /\ UNCHANGED <<second_extracted, merge_index>>
            ELSE /\ second_extracted' = parsed.obj
                 /\ merge_index' = 1
                 /\ pc' = "merge"
                 /\ UNCHANGED <<pass2_outcome, trace>>
    /\ in_flight' = in_flight \ {"pass2"}
    /\ UNCHANGED <<others, inputs, pass1, active_groups, calls, raw_extracted, refined_json,
                   refine_outcome, extracted, missing, built, focused_prompt,
                   result, raised>>

\* "{" + field_key + "}"
TemplateKey(field_key) == <<"{">> \o field_key \o <<"}">>

\* variant: the merged key is not deleted from missing
MergeItemKeepsMissing(ext, mis, field_key, value) ==
    LET template_key == TemplateKey(field_key)
    IN  IF Has(mis, template_key) /\ Truthy(value) /\ Strip(Str(value)) # <<>>
        THEN [extracted |-> Put(ext, template_key,
                                [label |-> Get(mis, template_key).label,
                                 value |-> Strip(Str(value))]),
              missing |-> mis]
        ELSE [extracted |-> ext, missing |-> mis]

\* one iteration of the merge loop over second_extracted.items()
MergeItem(ext, mis, field_key, value) ==
    LET template_key == TemplateKey(field_key)
    IN  IF Has(mis, template_key) /\ Truthy(value) /\ Strip(Str(value)) # <<>>
        THEN [extracted |-> Put(ext, template_key,
                                [label |-> Get(mis, template_key).label,
                                 value |-> Strip(Str(value))]),
              missing |-> Del(mis, template_key)]
        ELSE [extracted |-> ext, missing |-> mis]

MergeStep ==
    /\ pc = "merge"
    /\ LET item == second_extracted[merge_index]
           merged == MergeItem(extracted, missing, item.k, item.v)
       IN  /\ extracted' = merged.extracted
           /\ missing' = merged.missing
    /\ IF merge_index < Len(second_extracted)
       THEN /\ merge_index' = merge_index + 1
            /\ UNCHANGED <<pc, pass2_outcome, trace>>
       ELSE /\ pass2_outcome' = "merged"
            /\ pc' = "reconcile"
            /\ trace' = Append(trace, "PASS2_EXTRACTED")
            /\ UNCHANGED merge_index
    /\ UNCHANGED <<others, inputs, pass1, active_groups, calls, in_flight, raw_extracted,
                   refined_json, refine_outcome, built, focused_prompt,
                   second_extracted, result, raised>>

\* extracted, missing = self.apply_radio_button_logic(extracted, missing, active_groups)
Reconcile ==
    /\ pc = "reconcile"
    /\ LET pruned == apply_radio_button_logic(extracted, missing, active_groups)
       IN  /\ extracted' = pruned.extracted
           /\ missing' = pruned.missing
    /\ second_extracted' = <<>>
    /\ merge_index' = 0
    /\ pc' = "stats"
    /\ trace' = Append(trace, "RECONCILED")
    /\ UNCHANGED <<others, inputs, pass1, active_groups, calls, in_flight, raw_extracted,
                   refined_json, refine_outcome, built, focused_prompt,
                   pass2_outcome, result, raised>>

\* the "Final extraction" line divides by total_fields
FinalStats ==
    /\ pc = "stats"
    /\ IF Len(placeholder_json) = 0
       THEN ReturnFailure("division by zero")
       ELSE /\ pc' = "step7"
            /\ UNCHANGED <<result, in_flight>>
    /\ UNCHANGED <<others, inputs, pass1, active_groups, calls, raw_extracted, refined_json,
                   refine_outcome, extracted, missing, built, focused_prompt,
                   second_extracted, merge_index, pass2_outcome, raised, trace>>

\* step 7: the styled outputs and the returned dict
StyledOutputs ==
    /\ pc = "step7"
    /\ \/ /\ result' = SuccessResult(extracted, missing)
          /\ pc' = "returned"
          /\ trace' = Append(trace, "DONE")
          /\ UNCHANGED in_flight
       \/ /\ ReturnFailure("No fillable text info found in template")
          /\ UNCHANGED trace
    /\ UNCHANGED <<others, inputs, pass1, active_groups, calls, raw_extracted, refined_json,
                   refine_outcome, extracted, missing, built, focused_prompt,
                   second_extracted, merge_index, pass2_outcome, raised>>

Next ==
    \/ Start
    \/ SendPass1
    \/ Pass1Raises
    \/ Pass1Reply
    \/ SendRefine
    \/ RefineRaises
    \/ RefineReply
    \/ BuildMaps
    \/ CheckSecondPass
    \/ Pass2Raises
    \/ Pass2Reply
    \/ MergeStep
    \/ Reconcile
    \/ FinalStats
    \/ StyledOutputs

Spec == Init /\ [][Next]_vars

\* no run of the reconciler is started
ReconcilerParked ==
    /\ pc = "parked"
    /\ placeholder_json = <<>>
    /\ reply_keys = <<>>
    /\ active_groups = <<>>
    /\ calls = <<>>
    /\ in_flight = {}
    /\ pass1_outcome = "none"
    /\ initial_response_text = NoText
    /\ raw_extracted = <<>>
    /\ refined_json = <<>>
    /\ refine_outcome = "none"
    /\ extracted = <<>>
    /\ missing = <<>>
    /\ built = NotBuilt
    /\ focused_prompt = <<>>
    /\ second_extracted = <<>>
    /\ merge_index = 0
    /\ pass2_outcome = "none"
    /\ result = NoResult
    /\ raised = ""
    /\ trace = <<>>

\* ------------------------------------------------------------------------
\* The layout pipeline: documents, and the calls of the three functions
\* ------------------------------------------------------------------------

\* most pages of a document
MaxPages == 2

\* most calls of create_styled_json_from_layout on one layout
MaxRenderings == 2

\* the quadrilateral TL, TR, BR, BL of the box at (x, y), w wide and h high
Quad(x, y, w, h) ==
    <<[x |-> x, y |-> y], [x |-> RAdd(x, w), y |-> y],
      [x |-> RAdd(x, w), y |-> RAdd(y, h)], [x |-> x, y |-> RAdd(y, h)]>>

Entity(type_, text, id, page, has_bounding_poly, normalized_vertices) ==
    [type_ |-> type_, text |-> text, confidence |-> R(9, 10), id |-> id,
     anchored |-> TRUE, page |-> page, has_bounding_poly |-> has_bounding_poly,
     normalized_vertices |-> normalized_vertices]

\* one message box of 0.1 x 0.05 at (0.1, 0.2)
MessagePage(page) ==
    <<Entity("MessengerTextBox", <<"h","i">>, "m1", page, TRUE,
             Quad(R(1, 10), R(1, 5), R(1, 10), R(1, 20)))>>

TimeLine == <<"9",":","4","1">>

\* a timestamp low on the page, an entity with three vertices, a name high
\* on the page, an entity without polygon
MixedPage(page) ==
    <<Entity("chat_time", TimeLine, "t1", page, TRUE,
             Quad(R(2, 5), R(1, 2), R(1, 5), R(1, 25))),
      Entity("chat_label", <<"b","a","d">>, "b1", page, TRUE,
             SubSeq(Quad(R(1, 10), R(3, 10), R(1, 5), R(1, 25)), 1, 3)),
      Entity("audience_name", <<"A","n","n">>, "n1", page, TRUE,
             Quad(R(1, 10), R(1, 10), R(3, 10), R(1, 25))),
      Entity("other", <<"n","o","n","e">>, "o1", page, FALSE, <<>>)>>

LabelLine == <<"L">>

\* a two-line message box of height 0 and a label at the same top y, the
\* label's text with blanks around it
FlatPage(page) ==
    <<Entity("MessengerTextBox", <<"a","\n","b">>, "m2", page, TRUE,
             Quad(R(1, 10), R(3, 10), R(1, 2), RInt(0))),
      Entity("chat_label", <<" ">> \o LabelLine \o <<" ">>, "l1", page, TRUE,
             Quad(R(7, 10), R(3, 10), R(1, 5), R(1, 10)))>>

BlankPage(page) == <<>>

PageKinds == {"message", "mixed", "flat", "blank"}

EntitiesOf(kind, page) ==
    IF kind = "message" THEN MessagePage(page)
    ELSE IF kind = "mixed" THEN MixedPage(page)
    ELSE IF kind = "flat" THEN FlatPage(page)
    ELSE BlankPage(page)

RECURSIVE Concat(_, _)
Concat(seqs, n) == IF n = 0 THEN <<>> ELSE Concat(seqs, n - 1) \o seqs[n]

\* the document whose page i is of kind kinds[i]
DocumentOf(kinds) ==
    [pages |-> [i \in 1..Len(kinds) |->
                   [dimension |-> [width |-> RInt(DefaultPageWidth),
                                   height |-> RInt(DefaultPageHeight)],
                    text |-> <<"p">> \o IntStr(i)]],
     entities |-> Concat([i \in 1..Len(kinds) |-> EntitiesOf(kinds[i], i - 1)],
                         Len(kinds))]

Documents ==
    {DocumentOf(kinds) : kinds \in UNION {[1..n -> PageKinds] : n \in 0..MaxPages}}

\* page sizes the frontend gives: none, or 1000 x 1400
FrontendSizes == {NoFrontend, [width |-> RInt(1000), height |-> RInt(1400)]}

InitLayout ==
    /\ ReconcilerParked
    /\ MeasureParked
    /\ SharedParked
    /\ RadioParked
    /\ lpc = "document"
    /\ document \in Documents
    /\ frontend \in FrontendSizes
    /\ unmeasurable \in {{}, {TimeLine}, {LabelLine}}
    /\ layout_data = NoLayout
    /\ styled_jsons = <<>>
    /\ styled_pdf = NoPdf

\* layout_data = process_document_for_layout(document, width, height)
ProcessDocumentForLayout ==
    /\ lpc = "document"
    /\ layout_data' = process_document_for_layout(document, frontend.width,
                                                  frontend.height)
    /\ lpc' = "layout"
    /\ UNCHANGED <<document, frontend, unmeasurable, styled_jsons, styled_pdf>>
    /\ UNCHANGED <<run_vars, measure_vars, shared_vars, radio_vars>>

\* the call returns or raises; layout_data is the dict the call was given
ReturnStyledJson(out) ==
    /\ styled_jsons' = Append(styled_jsons,
                              [raised |-> out.raised,
                               styled_layout |-> out.styled_layout])
    /\ layout_data' = out.layout_data

ReturnStyledPdf(out) ==
    styled_pdf' = [called |-> TRUE, raised |-> out.raised, error |-> out.error,
                   pages |-> out.pages]

\* styled_json = create_styled_json_from_layout(layout_data)
CreateStyledJson ==
    /\ lpc = "layout"
    /\ Len(styled_jsons) < MaxRenderings
    /\ ReturnStyledJson(create_styled_json_from_layout(layout_data))
    /\ UNCHANGED <<lpc, document, frontend, unmeasurable, styled_pdf>>
    /\ UNCHANGED <<run_vars, measure_vars, shared_vars, radio_vars>>

\* pdf_content = create_styled_pdf_from_layout(layout_data)
CreateStyledPdf ==
    /\ lpc = "layout"
    /\ ~styled_pdf.called
    /\ ReturnStyledPdf(create_styled_pdf_from_layout(layout_data, unmeasurable))
    /\ UNCHANGED <<lpc, document, frontend, unmeasurable, layout_data, styled_jsons>>
    /\ UNCHANGED <<run_vars, measure_vars, shared_vars, radio_vars>>

NextLayout ==
    \/ ProcessDocumentForLayout
    \/ CreateStyledJson
    \/ CreateStyledPdf

SpecLayout == InitLayout /\ [][NextLayout]_vars

\* ------------------------------------------------------------------------
\* One entity measured on its own: the box height and the font size that
\* create_styled_json_from_layout computes for it
\* ------------------------------------------------------------------------

\* most lines of an entity's text
MaxLineCount == 100

PageHeights == {RInt(1), RInt(DefaultPageHeight), RInt(1400)}

\* top and bottom y of the entity, normalized
NormalizedYs == {RInt(0), R(1, 5), R(1, 4), RInt(1)}

EntityTypes ==
    {"chat_time", "chat_label", "audience_name", "MessengerTextBox", "header", "other"}

LineCounts == {1, 2, MaxLineCount}

InitMeasure ==
    /\ ReconcilerParked
    /\ LayoutParked
    /\ SharedParked
    /\ RadioParked
    /\ measure \in [page_height : PageHeights, y1 : NormalizedYs, y4 : NormalizedYs,
                    entity_type : EntityTypes, text_lines_count : LineCounts]
    /\ measured = NotMeasured

\* box_height = abs(y1 - y4) of the page coordinates
BoxHeightOf(m) ==
    RAbs(RSub(RMul(m.y1, m.page_height), RMul(m.y4, m.page_height)))

\* box_height and font_size of the entity
MeasureEntity ==
    /\ ~measured.done
    /\ measured' =
        [done |-> TRUE,
         box_height |-> BoxHeightOf(measure),
         font_size |-> calculate_font_size(measure.page_height, BoxHeightOf(measure),
                                           measure.entity_type,
                                           measure.text_lines_count)]
    /\ UNCHANGED <<measure, run_vars, layout_vars, shared_vars, radio_vars>>

NextMeasure == MeasureEntity

SpecMeasure == InitMeasure /\ [][NextMeasure]_vars

\* ------------------------------------------------------------------------
\* Runs of extract_values_from_document_with_template on the one instance
\* template_ocr_service, interleaved at their generate_content calls.
\* A run keeps its catalogue, groups and maps in locals of the call; of the
\* instance it reads self.gemini.  input holds the catalogue of the run's
\* template and what the service answers to the three calls of the run.
\* The template of every run has fillable text info (step 7 succeeds).
\* ------------------------------------------------------------------------

\* most runs at a time
MaxRuns == 2

\* a reply text that is one JSON object, and one that holds no object
JsonText(obj) == [kind |-> "json", obj |-> obj, len |-> RawPreviewChars]

NoJsonText == [kind |-> "no_braces", obj |-> <<>>, len |-> RawPreviewChars]

\* generate_content returns a response with this text, or raises
Reply(text) == [raises |-> FALSE, text |-> text]

Raise == [raises |-> TRUE, text |-> NoJsonText]

OneValue(field_key, value) == <<[k |-> field_key, v |-> value]>>

RunInput(pass1_reply, refine_reply, pass2_reply) ==
    [placeholder_json |-> SexCatalogue, pass1 |-> pass1_reply,
     refine |-> refine_reply, pass2 |-> pass2_reply]

FemaleReply == Reply(JsonText(OneValue(<<"f","e","m","a","l","e">>, JStr(<<"X"," ">>))))

NameReply == Reply(JsonText(OneValue(<<"n","a","m","e">>, JInt(7))))

\* documents: one resolved by pass 1 and pass 2, one by the refinement
\* alone, one by the refinement and pass 2, one resolved whole by pass 1,
\* one whose pass-1 reply holds no object, one whose pass-1 call raises
RunInputs ==
    {RunInput(Reply(JsonText(PrefixObject(SexCatalogue, 1))), Raise, NameReply),
     RunInput(Reply(JsonText(PrefixObject(SexCatalogue, 1))), FemaleReply,
              Reply(NoJsonText)),
     RunInput(Reply(JsonText(PrefixObject(SexCatalogue, 1))), FemaleReply, NameReply),
     RunInput(Reply(JsonText(PrefixObject(SexCatalogue, 3))), Raise, Raise),
     RunInput(Reply(NoJsonText), Raise, Raise),
     RunInput(Raise, Raise, Raise)}

\* a call of the method that has not entered its body; overlapped tells
\* whether another run was between its entry and its return when this one
\* entered
NewRun(input) ==
    [pc |-> "start", input |-> input, active_groups |-> <<>>,
     raw_extracted |-> <<>>, extracted |-> <<>>, missing |-> <<>>,
     result |-> NoResult, raised |-> "", overlapped |-> FALSE]

InFlight(run) == run.pc \in {"pass1_sent", "refine_sent", "pass2_sent"}

Over(run) == run.pc \in {"returned", "raised"}

\* variant: a run that returns closes the model client of the instance
SelfClosedAfterRun(self) == [self EXCEPT !.gemini = FALSE]

\* the instance after a run: the method assigns no attribute of self
SelfAfterRun(self) == self

\* "if not self.gemini: raise", then steps 1-4 up to the pass-1 call
Entered(run, self) ==
    IF ~self.gemini
    THEN [run EXCEPT !.pc = "raised", !.raised = "Gemini API not configured"]
    ELSE [run EXCEPT !.pc = "pass1_sent",
                     !.active_groups =
                         identify_active_radio_groups(run.input.placeholder_json)]

Returned(run, res) == [run EXCEPT !.pc = "returned", !.result = res]

AfterPass1Of(run, parsed) ==
    IF Falsy(parsed)
    THEN Returned(run, UnparsableResult(run.input.placeholder_json,
                                        run.input.pass1.text))
    ELSE [run EXCEPT !.pc = "refine_sent", !.raw_extracted = parsed.obj]

\* from the return of the pass-1 call to the refinement call
AfterPass1(run) ==
    IF run.input.pass1.raises
    THEN Returned(run, FailureResult(run.input.placeholder_json,
                                     "pass-1 call failed"))
    ELSE AfterPass1Of(run, extract_json_from_text(run.input.pass1.text))

FinishedOf(run, pruned) ==
    Returned(run,
             IF Len(run.input.placeholder_json) = 0
             THEN FailureResult(run.input.placeholder_json, "division by zero")
             ELSE SuccessResult(pruned.extracted, pruned.missing))

\* the radio-button logic, the statistics and step 7
Finished(run, ext, mis) ==
    FinishedOf(run, apply_radio_button_logic(ext, mis, run.active_groups))

RefinedJsonOf(run, parsed) ==
    IF Falsy(parsed) THEN run.raw_extracted ELSE parsed.obj

\* refined_json: the parsed refinement reply, else raw_extracted
RefinedJson(run) ==
    IF run.input.refine.raises THEN run.raw_extracted
    ELSE RefinedJsonOf(run, extract_json_from_text(run.input.refine.text))

AfterRefineOfMaps(run, ext, mis) ==
    IF NeedSecondPass(Len(run.input.placeholder_json), Len(mis))
    THEN [run EXCEPT !.pc = "pass2_sent", !.extracted = ext,
                     !.missing = mis]
    ELSE Finished(run, ext, mis)

AfterRefineOfExtracted(run, ext) ==
    AfterRefineOfMaps(run, ext,
                      BuildMissing(run.input.placeholder_json, ext,
                                   Len(run.input.placeholder_json)))

\* from the return of the refinement call to the pass-2 call or the return
AfterRefine(run) ==
    AfterRefineOfExtracted(run,
        BuildExtracted(run.input.placeholder_json, RefinedJson(run),
                       Len(run.input.placeholder_json)))

MergeOne(maps, item) == MergeItem(maps.extracted, maps.missing, item.k, item.v)

\* the merge loop over second_extracted.items(), items 1..n done
RECURSIVE MergeAll(_, _, _)
MergeAll(maps, items, n) ==
    IF n = 0 THEN maps
    ELSE MergeOne(MergeAll(maps, items, n - 1), items[n])

AfterPass2OfMaps(run, maps) == Finished(run, maps.extracted, maps.missing)

AfterPass2Of(run, parsed) ==
    IF Falsy(parsed) THEN Finished(run, run.extracted, run.missing)
    ELSE AfterPass2OfMaps(run,
             MergeAll([extracted |-> run.extracted, missing |-> run.missing],
                      parsed.obj, Len(parsed.obj)))

\* from the return of the pass-2 call to the return of the method
AfterPass2(run) ==
    IF run.input.pass2.raises THEN Finished(run, run.extracted, run.missing)
    ELSE AfterPass2Of(run, extract_json_from_text(run.input.pass2.text))

\* the next stretch of the run, up to its next service call or its return
StepOf(run, self) ==
    IF run.pc = "start" THEN Entered(run, self)
    ELSE IF run.pc = "pass1_sent" THEN AfterPass1(run)
    ELSE IF run.pc = "refine_sent" THEN AfterRefine(run)
    ELSE IF run.pc = "pass2_sent" THEN AfterPass2(run)
    ELSE run

\* the run carried to its end with no other run on the instance
RECURSIVE RunAlone(_, _)
RunAlone(run, self) ==
    IF Over(run) THEN run ELSE RunAlone(StepOf(run, self), self)

InitConcurrent ==
    /\ ReconcilerParked
    /\ LayoutParked
    /\ MeasureParked
    /\ RadioParked
    /\ service = ServiceInit
    /\ runs \in [1..MaxRuns -> {NewRun(input) : input \in RunInputs}]

\* the instance after the stretch that took the run from before to after
SelfAfter(self, after) == IF Over(after) THEN SelfAfterRun(self) ELSE self

Stepped(r, after) ==
    /\ runs' = [runs EXCEPT ![r] = after]
    /\ service' = SelfAfter(service, after)
    /\ UNCHANGED <<run_vars, layout_vars, measure_vars, radio_vars>>

\* run r enters the method and issues its pass-1 call
RunEnters(r) ==
    /\ runs[r].pc = "start"
    /\ Stepped(r, [Entered(runs[r], service) EXCEPT
                      !.overlapped = \E q \in 1..MaxRuns : InFlight(runs[q])])

\* the pass-1 call of run r returns or raises
RunPass1Returns(r) ==
    /\ runs[r].pc = "pass1_sent"
    /\ Stepped(r, AfterPass1(runs[r]))

\* the refinement call of run r returns or raises
RunRefineReturns(r) ==
    /\ runs[r].pc = "refine_sent"
    /\ Stepped(r, AfterRefine(runs[r]))

\* the pass-2 call of run r returns or raises
RunPass2Returns(r) ==
    /\ runs[r].pc = "pass2_sent"
    /\ Stepped(r, AfterPass2(runs[r]))

NextConcurrent ==
    \E r \in 1..MaxRuns :
        \/ RunEnters(r)
        \/ RunPass1Returns(r)
        \/ RunRefineReturns(r)
        \/ RunPass2Returns(r)

SpecConcurrent == InitConcurrent /\ [][NextConcurrent]_vars

\* ------------------------------------------------------------------------
\* apply_radio_button_logic called on its own, with the maps a run can hold
\* at line 949: every catalogue key is either in extracted, with the value
\* "" or "X", or in missing
\* ------------------------------------------------------------------------

RadioCatalogues == {SexCatalogue, MixedCatalogue, PlainKeyCatalogue}

FieldStates == {"missing", "blank", "resolved"}

\* the entries of the fields of cat that are in the state wanted, with value
EntriesIn(cat, field_state, wanted, value) ==
    LET idx == Ascending({i \in 1..Len(cat) : field_state[i] \in wanted})
    IN  [j \in 1..Len(idx) |->
            [k |-> cat[idx[j]].key,
             v |-> [label |-> FieldLabel(cat[idx[j]]),
                    value |-> IF field_state[idx[j]] = "resolved"
                              THEN value ELSE <<>>]]]

RadioArgs(cat, field_state) ==
    [extracted |-> EntriesIn(cat, field_state, {"blank", "resolved"}, <<"X">>),
     missing |-> EntriesIn(cat, field_state, {"missing"}, <<>>),
     active_groups |-> identify_active_radio_groups(cat)]

InitRadio ==
    /\ ReconcilerParked
    /\ LayoutParked
    /\ MeasureParked
    /\ SharedParked
    /\ \E cat \in RadioCatalogues :
        \E field_state \in [1..Len(cat) -> FieldStates] :
            radio_args = RadioArgs(cat, field_state)
    /\ radio_ret = NotReturned

\* variant: updated_missing is the dict given, not a copy of it
MissingPrunedInPlace(missing_given, updated_missing) == updated_missing

\* the dict given as missing after the call: the keys are deleted from
\* updated_missing, a copy made by missing.copy()
MissingAfterCall(missing_given, updated_missing) == missing_given

\* the returned tuple (extracted, updated_missing) and the arguments after
\* the call
RadioReturn(args, out) ==
    [done |-> TRUE,
     extracted |-> out.extracted,
     updated_missing |-> out.missing,
     extracted_after |-> args.extracted,
     missing_after |-> MissingAfterCall(args.missing, out.missing)]

ApplyRadioButtonLogic ==
    /\ ~radio_ret.done
    /\ radio_ret' =
        RadioReturn(radio_args,
                    apply_radio_button_logic(radio_args.extracted, radio_args.missing,
                                             radio_args.active_groups))
    /\ UNCHANGED <<radio_args, run_vars, layout_vars, measure_vars, shared_vars>>

NextRadio == ApplyRadioButtonLogic

SpecRadio == InitRadio /\ [][NextRadio]_vars

\* ------------------------------------------------------------------------
\* Properties
\* ------------------------------------------------------------------------

\* the run has returned the success dict
Succeeded == pc = "returned" /\ result.success

\* the run has returned a dict with success = False
Failed == pc = "returned" /\ "success" \in result.keys /\ ~result.success

\* the second-pass test has been made
PastCheck == built.done /\ pc # "check"

Issued(call) == call \in Range(calls)

\* keys of group i found in the dict d
MembersIn(i, d) == {f \in Range(active_groups[i].v) : Has(d, f)}

\* f is in the dict d with a non-empty value
ResolvedIn(d, f) == Has(d, f) /\ Get(d, f).value # <<>>

IsPrefix(s, t) == Len(s) <= Len(t) /\ s = SubSeq(t, 1, Len(s))

\* C1: in every state of a run (after the build of step 6, after each
\* iteration of the pass-2 merge, after the radio-button logic) and in every
\* returned dict, no key is both in extracted and in missing.
C1_ExtractedMissingDisjoint ==
    /\ KeySet(extracted) \cap KeySet(missing) = {}
    /\ KeySet(result.extracted_ocr) \cap KeySet(result.missing_value_keys) = {}

\* C1 witness: a successful run in which pass 2 moved a key from missing to
\* extracted and some key is still missing.
C1_Witness ==
    /\ Succeeded
    /\ pass2_outcome = "merged"
    /\ Len(result.extracted_ocr) > Len(built.extracted)
    /\ result.missing_value_keys # <<>>

\* C2 (as claimed): in the success dict every inferred group has at most one
\* member in the extracted map.
C2_AtMostOneExtractedPerGroup ==
    Succeeded =>
        \A i \in 1..Len(active_groups) :
            Cardinality(MembersIn(i, result.extracted_ocr)) <= 1

\* C3: the pass-2 call is issued exactly when, after the build of step 6,
\* missing is not empty and holds at least half of the catalogue's keys, and
\* never before that build; with 20 fields, 9 extracted issues it and
\* 11 extracted does not.
C3_SecondPassIff ==
    /\ Issued("pass2") => PastCheck
    /\ PastCheck =>
        (Issued("pass2") <=>
            (Len(built.missing) > 0
             /\ 2 * Len(built.missing) >= Len(placeholder_json)))
    /\ (PastCheck /\ Len(placeholder_json) = 20 /\ Len(built.extracted) = 9)
            => Issued("pass2")
    /\ (PastCheck /\ Len(placeholder_json) = 20 /\ Len(built.extracted) = 11)
            => ~Issued("pass2")

\* C3 witness: 20 fields, 9 extracted by the build, pass 2 issued.
C3_Witness ==
    /\ PastCheck
    /\ Len(placeholder_json) = 20
    /\ Len(built.extracted) = 9
    /\ Issued("pass2")

StatesWithPass2 ==
    <<"INIT", "PASS1_EXTRACTED", "REFINED", "PASS2_EXTRACTED", "RECONCILED", "DONE">>

StatesSkippingPass2 ==
    <<"INIT", "PASS1_EXTRACTED", "REFINED", "SKIP_PASS2", "RECONCILED", "DONE">>

\* C4: the reconciler states are entered in the order INIT, PASS1_EXTRACTED,
\* REFINED, PASS2_EXTRACTED or SKIP_PASS2, RECONCILED, DONE, none twice, and
\* the success dict is returned exactly at DONE, after RECONCILED.
C4_StateOrder ==
    /\ IsPrefix(trace, StatesWithPass2) \/ IsPrefix(trace, StatesSkippingPass2)
    /\ Succeeded <=> trace \in {StatesWithPass2, StatesSkippingPass2}

\* C4 witness: a run that went through PASS2_EXTRACTED and reached DONE.
C4_Witness == Succeeded /\ trace = StatesWithPass2

\* C5: at most three calls are issued, in the order pass 1, refinement,
\* pass 2, each at most once and never two in flight; pass 2 is issued only
\* once the pass-1 reply is parsed and missing is built.
C5_CallBudget ==
    /\ Len(calls) <= 3
    /\ IsPrefix(calls, <<"pass1", "refine", "pass2">>)
    /\ Cardinality(in_flight) <= 1
    /\ in_flight \subseteq Range(calls)
    /\ Issued("pass2") => (pass1_outcome = "parsed" /\ built.done)

\* C5 witness: all three calls issued and the run succeeded.
C5_Witness == Succeeded /\ calls = <<"pass1", "refine", "pass2">>

Pass2Failed == pass2_outcome \in {"raised", "unparsable"}

\* C7: when the pass-2 call raises or its reply holds no map, the run goes
\* on: extracted stays the map built in step 6, the success dict carries
\* exactly that map, and if the run fails later the cause is not pass 2.
C7_Pass2FailureDegrades ==
    Pass2Failed =>
        /\ extracted = built.extracted
        /\ pc \in {"reconcile", "stats", "step7", "returned"}
        /\ Succeeded => result.extracted_ocr = built.extracted
        /\ Failed => result.cause = "No fillable text info found in template"

\* C7 witness: the pass-2 call raised and the run returned the success dict
\* with the extracted map of step 6.
C7_Witness ==
    /\ pass2_outcome = "raised"
    /\ Succeeded
    /\ result.extracted_ocr # <<>>

RefineFailed == refine_outcome \in {"raised", "unparsable"}

\* C8: when the refinement call raises or its reply holds no map, the run
\* goes on with refined_json = raw_extracted, and step 6 builds extracted
\* and missing from the unrefined pass-1 map.
C8_RefineFallback ==
    RefineFailed =>
        /\ pc \in {"step6", "check"} => refined_json = raw_extracted
        /\ pc = "check" =>
            /\ built.extracted = BuildExtracted(placeholder_json, raw_extracted,
                                                Len(placeholder_json))
            /\ built.missing = BuildMissing(placeholder_json, built.extracted,
                                            Len(placeholder_json))
        /\ Failed => result.cause \in {"No fillable text info found in template",
                                       "division by zero"}

\* C8 witness: the refinement call raised and the run returned the success
\* dict with an extracted value.
C8_Witness ==
    /\ refine_outcome = "raised"
    /\ Succeeded
    /\ result.extracted_ocr # <<>>

\* C9: when the pass-1 call fails the run ends with the failure dict; once
\* the pass-1 call is issued the function raises nothing; every failure dict
\* has the cause attached, success = False, an empty extracted map and the
\* whole catalogue as missing; no dict with an error carries extracted values.
C9_FailureResult ==
    /\ pass1_outcome = "raised" =>
        (Failed /\ result.cause = "pass-1 call failed")
    /\ calls # <<>> => (pc # "raised" /\ raised = "")
    /\ ("success" \in result.keys /\ ~result.success) =>
        /\ pc = "returned"
        /\ "error" \in result.keys
        /\ result.error # ""
        /\ result.cause # ""
        /\ result.extracted_ocr = <<>>
        /\ result.missing_value_keys = CatalogueDict(placeholder_json)
    /\ "error" \in result.keys => (result.extracted_ocr = <<>> /\ ~result.success)

\* C9 witness: the styled outputs raised after values had been extracted.
C9_Witness ==
    /\ Failed
    /\ result.cause = "No fillable text info found in template"
    /\ extracted # <<>>
    /\ placeholder_json # <<>>

MaleKey == <<"{","m","a","l","e","}">>

FemaleKey == <<"{","f","e","m","a","l","e","}">>

\* C10: in the success dict, when a member of a group is resolved (is in
\* extracted with a non-empty value), no member of that group is in missing;
\* so with the Male and Female fields of the gender group, when exactly one
\* is resolved the other is not in missing.
C10_GroupClearedFromMissing ==
    Succeeded =>
        /\ \A i \in 1..Len(active_groups) :
            (\E f \in Range(active_groups[i].v) : ResolvedIn(result.extracted_ocr, f))
                => MembersIn(i, result.missing_value_keys) = {}
        /\ placeholder_json = SexCatalogue =>
            /\ (ResolvedIn(result.extracted_ocr, MaleKey)
                /\ ~ResolvedIn(result.extracted_ocr, FemaleKey))
                    => ~Has(result.missing_value_keys, FemaleKey)
            /\ (ResolvedIn(result.extracted_ocr, FemaleKey)
                /\ ~ResolvedIn(result.extracted_ocr, MaleKey))
                    => ~Has(result.missing_value_keys, MaleKey)

\* C10 witness: Male resolved, Female missing after step 6 and after pass 2,
\* and in neither map of the success dict.
C10_Witness ==
    /\ Succeeded
    /\ placeholder_json = SexCatalogue
    /\ ResolvedIn(result.extracted_ocr, MaleKey)
    /\ Has(built.missing, FemaleKey)
    /\ ~Has(result.extracted_ocr, FemaleKey)
    /\ ~Has(result.missing_value_keys, FemaleKey)

\* C11 (as claimed): no key is in the member lists of two different groups
\* of the inferred group map.
C11_KeyInAtMostOneGroup ==
    \A i, j \in 1..Len(active_groups) :
        i # j => Range(active_groups[i].v) \cap Range(active_groups[j].v) = {}

\* the keys of the dict d whose clean key is the listed name
ListedKeys(d, name) == {k \in KeySet(d) : StripBraces(k) = name}

\* C20: the pass-2 prompt lists at most 15 fields, each one a key of the
\* missing map it was built from, in the order of that map and none twice,
\* and no listed field is in a group of which a member is in extracted.
C20_FocusedPromptFields ==
    Issued("pass2") =>
        /\ Len(focused_prompt) <= MaxPriorityFields
        /\ \A i \in 1..Len(focused_prompt) :
            /\ ListedKeys(built.missing, focused_prompt[i]) # {}
            /\ \A k \in ListedKeys(built.missing, focused_prompt[i]) :
                \A g \in 1..Len(active_groups) :
                    k \in Range(active_groups[g].v)
                        => MembersIn(g, built.extracted) = {}
        /\ \A i, j \in 1..Len(focused_prompt) :
            i # j => focused_prompt[i] # focused_prompt[j]

\* C20 witness: Male was extracted, Female and the name are missing, and the
\* prompt of the issued pass 2 lists the name alone.
C20_Witness ==
    /\ Issued("pass2")
    /\ placeholder_json = SexCatalogue
    /\ Has(built.extracted, MaleKey)
    /\ Has(built.missing, FemaleKey)
    /\ focused_prompt = <<<<"n","a","m","e">>>>

\* C20 witness of the cap: more than 15 keys are missing without a group
\* and the prompt lists the first 15 of them.
C20_CapReached ==
    /\ Issued("pass2")
    /\ Len(built.missing) > MaxPriorityFields
    /\ Len(focused_prompt) = MaxPriorityFields

\* ------------------------------------------------------------------------
\* Properties of the layout pipeline
\* ------------------------------------------------------------------------

\* the layout process_document_for_layout makes of the document
LayoutOf == process_document_for_layout(document, frontend.width, frontend.height)

\* the entities of page i (1-based) of the document that have a polygon of
\* four or more vertices
WellFormedOn(i) ==
    SelectSeq(document.entities,
              LAMBDA e : e.anchored /\ e.page = i - 1 /\ e.has_bounding_poly
                         /\ Len(e.normalized_vertices) >= 4)

\* the entities of page i of the document
EntitiesOn(i) == SelectSeq(document.entities, LAMBDA e : e.anchored /\ e.page = i - 1)

\* the renderable entities of page i of the layout whose measurement raises
UnmeasurableOn(i) ==
    SelectSeq(Renderable(layout_data.pages[i].entities),
              LAMBDA e : MeasureRaises(e, unmeasurable))

PdfRendered == styled_pdf.called /\ ~styled_pdf.raised

\* the numbers of the styled entity j are the numbers d is drawn with
SameNumbers(j, d) ==
    /\ j.dimensions.box_x = d.box_x
    /\ j.dimensions.box_y = d.box_y
    /\ j.dimensions.box_width = d.box_width
    /\ j.dimensions.box_height = d.box_height
    /\ j.styling.font_size = d.font_size
    /\ d.font.set /\ d.font.size = j.styling.font_size
    /\ j.styling.text_padding = d.text_padding
    /\ j.styling.line_height = d.line_height
    /\ j.dimensions.text_y = d.text_y
    /\ j.styling.background = d.background

\* C12 (as claimed): for every entity of every page, the numbers the styled
\* JSON holds (box x, y, width, height, font size, padding, line height,
\* text y, expanded background box and radius) are the numbers the PDF
\* renderer computes and draws with for the same layout.
C12_JsonEqualsPdf ==
    PdfRendered =>
        \A k \in 1..Len(styled_jsons) :
            \A p \in 1..Len(styled_pdf.pages) :
                \A e \in 1..Len(styled_pdf.pages[p]) :
                    SameNumbers(styled_jsons[k].styled_layout.pages[p].entities[e],
                                styled_pdf.pages[p][e])

\* C13: an entity with fewer than four vertices or without polygon never
\* makes a renderer raise, and the entities of its page that have four or
\* more vertices are all rendered: the styled JSON never raises and holds
\* exactly these; the PDF renderer raises only for a measurement or for a
\* document without page, and else draws exactly these.
C13_MalformedSkipped ==
    /\ \A k \in 1..Len(styled_jsons) :
        /\ ~styled_jsons[k].raised
        /\ \A i \in 1..Len(document.pages) :
            LET rendered == styled_jsons[k].styled_layout.pages[i].entities
            IN  /\ Len(rendered) = Len(WellFormedOn(i))
                /\ {rendered[j].id : j \in 1..Len(rendered)}
                    = {WellFormedOn(i)[j].id : j \in 1..Len(WellFormedOn(i))}
    /\ (styled_pdf.called /\ styled_pdf.raised) =>
        \/ Len(document.pages) = 0
        \/ \E i \in 1..Len(layout_data.pages) : UnmeasurableOn(i) # <<>>
    /\ PdfRendered =>
        \A i \in 1..Len(document.pages) :
            /\ Len(styled_pdf.pages[i]) = Len(WellFormedOn(i))
            /\ {styled_pdf.pages[i][j].type : j \in 1..Len(styled_pdf.pages[i])}
                = {WellFormedOn(i)[j].type_ : j \in 1..Len(WellFormedOn(i))}

\* C13 witness: a page with an entity of three vertices and an entity
\* without polygon, of which both renderers rendered the two other entities.
C13_Witness ==
    /\ PdfRendered
    /\ Len(styled_jsons) > 0
    /\ Len(document.pages) > 0
    /\ Len(EntitiesOn(1)) = 4
    /\ \E e \in Range(EntitiesOn(1)) : Len(e.normalized_vertices) = 3
    /\ Len(styled_pdf.pages[1]) = 2
    /\ Len(styled_jsons[1].styled_layout.pages[1].entities) = 2

\* C14 (as claimed): the rendered document holds the rendering of every
\* page that renders without exception, whatever happens on the other pages.
C14_PageFailureIsolated ==
    styled_pdf.called =>
        \A i \in 1..Len(layout_data.pages) :
            ~DrawnPage(layout_data.pages[i], unmeasurable).raised =>
                \E p \in 1..Len(styled_pdf.pages) :
                    styled_pdf.pages[p] = DrawnPage(layout_data.pages[i], unmeasurable).drawn

\* C15 (as claimed): on a page with an entity whose measurement raises, the
\* renderer does not raise and draws the other renderable entities of the page.
C15_UnmeasurableSkipped ==
    styled_pdf.called =>
        \A i \in 1..Len(layout_data.pages) :
            UnmeasurableOn(i) # <<>> =>
                /\ ~styled_pdf.raised
                /\ Len(styled_pdf.pages) >= i
                /\ Len(styled_pdf.pages[i])
                    = Len(Renderable(layout_data.pages[i].entities))
                      - Len(UnmeasurableOn(i))

\* C16: for every page height > 0, box of height >= 0, line count >= 1 and
\* entity type, the box height is >= 0 and the font size is at least
\* page_height / 80 and at most page_height / 30.
C16_FontSizeClamped ==
    measured.done =>
        /\ RLe(RInt(0), measured.box_height)
        /\ RLe(RDiv(measure.page_height, RInt(80)), measured.font_size)
        /\ RLe(measured.font_size, RDiv(measure.page_height, RInt(30)))

\* C16 witness: a box of height 0 with a text of MaxLineCount lines was
\* measured.
C16_Witness ==
    /\ measured.done
    /\ measured.box_height = RInt(0)
    /\ measure.text_lines_count = MaxLineCount

C18_OnePagePerInputPage ==
    unmeasurable = {} =>
        /\ \A k \in 1..Len(styled_jsons) :
            /\ ~styled_jsons[k].raised
            /\ Len(styled_jsons[k].styled_layout.pages) = Len(document.pages)
            /\ \A i \in 1..Len(document.pages) :
                styled_jsons[k].styled_layout.pages[i].page_number = i
        /\ styled_pdf.called =>
            /\ ~styled_pdf.raised
            /\ Len(styled_pdf.pages) = Len(document.pages)

\* ------------------------------------------------------------------------
\* Properties of concurrent runs
\* ------------------------------------------------------------------------

Merged == pc = "reconcile" /\ pass2_outcome = "merged"

\* the reply gives a value under field_key that is not empty or blank
Resolves(reply, field_key) ==
    /\ Has(reply, field_key)
    /\ Truthy(Get(reply, field_key))
    /\ Strip(Str(Get(reply, field_key))) # <<>>

\* key is in d and in e with the same entry, or in neither
SameIn(d, e, key) ==
    /\ Has(d, key) <=> Has(e, key)
    /\ Has(d, key) => Get(d, key) = Get(e, key)

\* C21 (as claimed): after the merge of pass 2, every catalogue key that was
\* missing and for which the reply gives a non-empty value under the key of
\* the field (the key without braces, as the prompt lists it) is in
\* extracted with the trimmed value and its label and no longer in missing;
\* every other key is where it was.
C21_Pass2Moves ==
    Merged =>
        \A i \in 1..Len(placeholder_json) :
            LET key == placeholder_json[i].key
            IN  IF Has(built.missing, key)
                   /\ Resolves(second_extracted, StripBraces(key))
                THEN /\ Has(extracted, key)
                     /\ Get(extracted, key) =
                            [label |-> Get(built.missing, key).label,
                             value |-> Strip(Str(Get(second_extracted,
                                                     StripBraces(key))))]
                     /\ ~Has(missing, key)
                ELSE /\ SameIn(extracted, built.extracted, key)
                     /\ SameIn(missing, built.missing, key)

\* the spellings under which the value of a catalogue key is looked up
Counterparts(key) ==
    {StripBraces(key)} \cup Range(Alternatives(StripBraces(key)))

\* extracted and missing are built and refined_json is still at hand
JustBuilt == pc = "check"

\* C22: right after the build, a catalogue key is in extracted exactly when
\* refined_json holds a non-empty (truthy) value under one of its
\* counterparts; every other catalogue key is in missing with its label and
\* the value ""; extracted and missing together hold every catalogue key
\* exactly once and no other key.
C22_BuildPartitions ==
    JustBuilt =>
        /\ \A i \in 1..Len(placeholder_json) :
            LET key == placeholder_json[i].key
                found == \E c \in Counterparts(key) :
                            Has(refined_json, c) /\ Truthy(Get(refined_json, c))
            IN  /\ Has(extracted, key) <=> found
                /\ Has(missing, key) <=> ~found
                /\ Has(missing, key) =>
                    Get(missing, key) =
                        [label |-> FieldLabel(placeholder_json[i]), value |-> <<>>]
                /\ Has(extracted, key) =>
                    Get(extracted, key).label = FieldLabel(placeholder_json[i])
        /\ KeySet(extracted) \cup KeySet(missing)
            = {placeholder_json[i].key : i \in 1..Len(placeholder_json)}
        /\ Len(extracted) + Len(missing) = Len(placeholder_json)

\* C22 witness: a key is in extracted through a variant of its clean key,
\* which refined_json does not hold itself, and another key is in missing.
C22_Witness ==
    /\ JustBuilt
    /\ missing # <<>>
    /\ \E i \in 1..Len(placeholder_json) :
        /\ Has(extracted, placeholder_json[i].key)
        /\ ~Has(refined_json, StripBraces(placeholder_json[i].key))

\* C23 (as claimed): at every point of a run and in the returned dict, every
\* entry of extracted holds a value that is not the empty string.
C23_ExtractedValuesNonEmpty ==
    /\ \A i \in 1..Len(extracted) : extracted[i].v.value # <<>>
    /\ \A i \in 1..Len(result.extracted_ocr) : result.extracted_ocr[i].v.value # <<>>

\* C28 (as claimed): a field that was missing when pass 2 was issued and
\* that the focused prompt does not list is still in missing right after the
\* merge, whatever the reply holds.
C28_OnlyListedFieldsResolved ==
    Merged =>
        \A i \in 1..Len(built.missing) :
            StripBraces(built.missing[i].k) \notin Range(focused_prompt)
                => Has(missing, built.missing[i].k)

\* C29 (as claimed): with an empty catalogue and a parsed pass-1 reply the
\* run issues no pass-2 call and returns the success dict with empty
\* extracted and missing maps.
C29_EmptyCatalogueSucceeds ==
    (Len(placeholder_json) = 0 /\ pass1_outcome = "parsed") =>
        /\ ~Issued("pass2")
        /\ pc = "returned" =>
            /\ Succeeded
            /\ result.extracted_ocr = <<>>
            /\ result.missing_value_keys = <<>>

\* ------------------------------------------------------------------------
\* Properties of apply_radio_button_logic
\* ------------------------------------------------------------------------

\* C30: apply_radio_button_logic returns extracted as given and a missing
\* map whose entries are entries of the one given, in their order; every key
\* it removes is a member of a group that has a member in extracted with a
\* non-empty value; the two dicts given are after the call as before it.
C30_RadioLogicOnlyShrinksMissing ==
    radio_ret.done =>
        /\ radio_ret.extracted = radio_args.extracted
        /\ radio_ret.extracted_after = radio_args.extracted
        /\ radio_ret.missing_after = radio_args.missing
        /\ radio_ret.updated_missing =
            SelectSeq(radio_args.missing,
                      LAMBDA e : Has(radio_ret.updated_missing, e.k))
        /\ \A i \in 1..Len(radio_args.missing) :
            ~Has(radio_ret.updated_missing, radio_args.missing[i].k) =>
                \E g \in 1..Len(radio_args.active_groups) :
                    /\ radio_args.missing[i].k \in Range(radio_args.active_groups[g].v)
                    /\ \E field \in Range(radio_args.active_groups[g].v) :
                        /\ Has(radio_args.extracted, field)
                        /\ Get(radio_args.extracted, field).value # <<>>

\* C30 witness: the call removed a key from missing and kept another.
C30_Witness ==
    /\ radio_ret.done
    /\ radio_ret.updated_missing # <<>>
    /\ Len(radio_ret.updated_missing) < Len(radio_args.missing)

\* ------------------------------------------------------------------------
\* Properties of the renderers: order, line pitch, background, font size
\* ------------------------------------------------------------------------

\* the renderable entities of page p of the layout, in their input order
InputOf(p) == Renderable(layout_data.pages[p].entities)

\* position of the key in the sequence of keys
IndexOf(keys, key) == CHOOSE i \in 1..Len(keys) : keys[i] = key

\* out_keys are the keys of the entities inp in ascending order of top y,
\* entities of equal top y in their order in inp
StableAscending(out_keys, inp, in_keys) ==
    /\ Len(out_keys) = Len(inp)
    /\ Range(out_keys) = Range(in_keys)
    /\ \A a, b \in 1..Len(out_keys) :
        a < b =>
            LET ia == IndexOf(in_keys, out_keys[a])
                ib == IndexOf(in_keys, out_keys[b])
                ya == inp[ia].bounding_poly.vertices[1].y
                yb == inp[ib].bounding_poly.vertices[1].y
            IN  /\ RLe(ya, yb)
                /\ ya = yb => ia < ib

\* C24: on every page the styled JSON lists, and the PDF renderer draws, the
\* renderable entities in ascending order of the y of their first vertex,
\* entities of equal top y in their input order.
C24_StableTopYOrder ==
    /\ \A k \in 1..Len(styled_jsons) :
        ~styled_jsons[k].raised =>
            \A p \in 1..Len(styled_jsons[k].styled_layout.pages) :
                LET out == styled_jsons[k].styled_layout.pages[p].entities
                IN  StableAscending([j \in 1..Len(out) |-> out[j].id], InputOf(p),
                                    [j \in 1..Len(InputOf(p)) |-> InputOf(p)[j].id])
    /\ PdfRendered =>
        \A p \in 1..Len(styled_pdf.pages) :
            LET out == styled_pdf.pages[p]
            IN  StableAscending([j \in 1..Len(out) |-> out[j].type], InputOf(p),
                                [j \in 1..Len(InputOf(p)) |-> InputOf(p)[j].type])

\* C24 witness: both renderers rendered a page whose two entities have the
\* same top y, and a page whose entities are given in descending top y.
C24_Witness ==
    /\ PdfRendered
    /\ Len(styled_jsons) > 0
    /\ Len(styled_pdf.pages) = 2
    /\ Len(InputOf(1)) = 2
    /\ RLt(InputOf(1)[2].bounding_poly.vertices[1].y,
           InputOf(1)[1].bounding_poly.vertices[1].y)
    /\ styled_jsons[1].styled_layout.pages[1].entities[1].id = InputOf(1)[2].id
    /\ Len(InputOf(2)) = 2
    /\ InputOf(2)[1].bounding_poly.vertices[1].y
        = InputOf(2)[2].bounding_poly.vertices[1].y
    /\ styled_pdf.pages[2][1].type = InputOf(2)[1].type

\* the line pitch and the text height are as C25 says
PitchShrinks(font_size, text_padding, box_height, line_count, line_height) ==
    /\ line_height =
        RMin(RMul(font_size, R(12, 10)),
             RDiv(RSub(box_height, RMul(RInt(2), text_padding)), RInt(line_count)))
    /\ RLe(RMul(line_height, RInt(line_count)),
           RSub(box_height, RMul(RInt(2), text_padding)))

\* C25: for every entity rendered, line_height is
\* min(font_size * 1.2, (box_height - 2 * padding) / line_count), and
\* line_height * line_count is at most box_height - 2 * padding.
C25_LinePitchShrinks ==
    /\ \A k \in 1..Len(styled_jsons) :
        \A p \in 1..Len(styled_jsons[k].styled_layout.pages) :
            \A j \in 1..Len(styled_jsons[k].styled_layout.pages[p].entities) :
                LET e == styled_jsons[k].styled_layout.pages[p].entities[j]
                IN  PitchShrinks(e.styling.font_size, e.styling.text_padding,
                                 e.dimensions.box_height, e.styling.line_count,
                                 e.styling.line_height)
    /\ \A p \in 1..Len(styled_pdf.pages) :
        \A j \in 1..Len(styled_pdf.pages[p]) :
            LET d == styled_pdf.pages[p][j]
            IN  PitchShrinks(d.font_size, d.text_padding, d.box_height,
                             d.line_count, d.line_height)

\* C25 witness: both renderers rendered an entity of two lines whose pitch
\* is smaller than font_size * 1.2, and one whose pitch is font_size * 1.2.
C25_Witness ==
    /\ PdfRendered
    /\ Len(styled_jsons) > 0
    /\ \E p \in 1..Len(styled_pdf.pages) :
        \E j \in 1..Len(styled_pdf.pages[p]) :
            LET d == styled_pdf.pages[p][j]
                e == styled_jsons[1].styled_layout.pages[p].entities[j]
            IN  /\ d.line_count = 2
                /\ RLt(d.line_height, RMul(d.font_size, R(12, 10)))
                /\ RLt(e.styling.line_height, RMul(e.styling.font_size, R(12, 10)))
    /\ \E p \in 1..Len(styled_pdf.pages) :
        \E j \in 1..Len(styled_pdf.pages[p]) :
            styled_pdf.pages[p][j].line_height
                = RMul(styled_pdf.pages[p][j].font_size, R(12, 10))

\* the background bg is the box padded outward by text_padding on each
\* side, text_padding > 0, and text_y is counted from box_y
PaddedOutward(bg, box_x, box_y, box_width, box_height, text_padding, line_height,
              line_count, text_y) ==
    /\ bg.present
    /\ RLt(RInt(0), text_padding)
    /\ bg.expanded_x = RSub(box_x, text_padding)
    /\ bg.expanded_y = RSub(box_y, text_padding)
    /\ bg.expanded_width = RAdd(box_width, RMul(RInt(2), text_padding))
    /\ bg.expanded_height = RAdd(box_height, RMul(RInt(2), text_padding))
    /\ RLt(box_width, bg.expanded_width)
    /\ RLt(box_height, bg.expanded_height)
    /\ text_y =
        RSub(RAdd(RAdd(box_y,
                       RDiv(RSub(box_height, RMul(line_height, RInt(line_count))),
                            RInt(2))),
                  RMul(line_height, RInt(line_count))),
             text_padding)

\* C26: for every MessengerTextBox entity rendered, the expanded background
\* box starts at (box_x - padding, box_y - padding) and is wider and higher
\* than the raw box by exactly 2 * padding, with padding > 0; the text y is
\* counted from the raw box_y.
C26_BackgroundPaddedOutward ==
    /\ \A k \in 1..Len(styled_jsons) :
        \A p \in 1..Len(styled_jsons[k].styled_layout.pages) :
            \A j \in 1..Len(styled_jsons[k].styled_layout.pages[p].entities) :
                LET e == styled_jsons[k].styled_layout.pages[p].entities[j]
                IN  e.type = "MessengerTextBox" =>
                        PaddedOutward(e.styling.background, e.dimensions.box_x,
                                      e.dimensions.box_y, e.dimensions.box_width,
                                      e.dimensions.box_height, e.styling.text_padding,
                                      e.styling.line_height, e.styling.line_count,
                                      e.dimensions.text_y)
    /\ \A p \in 1..Len(styled_pdf.pages) :
        \A j \in 1..Len(styled_pdf.pages[p]) :
            LET d == styled_pdf.pages[p][j]
            IN  d.type = "MessengerTextBox" =>
                    PaddedOutward(d.background, d.box_x, d.box_y, d.box_width,
                                  d.box_height, d.text_padding, d.line_height,
                                  d.line_count, d.text_y)

\* C26 witness: both renderers rendered a message box of height 0 and a
\* message box of positive height.
C26_Witness ==
    /\ PdfRendered
    /\ Len(styled_jsons) > 0
    /\ \E p, q \in 1..Len(styled_pdf.pages) :
        \E i \in 1..Len(styled_pdf.pages[p]) :
            \E j \in 1..Len(styled_pdf.pages[q]) :
                /\ styled_pdf.pages[p][i].type = "MessengerTextBox"
                /\ styled_pdf.pages[p][i].box_height = RInt(0)
                /\ styled_pdf.pages[q][j].type = "MessengerTextBox"
                /\ RLt(RInt(0), styled_pdf.pages[q][j].box_height)
                /\ styled_jsons[1].styled_layout.pages[q].entities[j].styling.background.present

\* the multiplier C27 gives for an entity type
ClaimedTypeMultiplier(entity_type) ==
    IF entity_type \in {"chat_time", "chat_label"} THEN R(1, 2)
    ELSE IF entity_type = "audience_name" THEN R(7, 10)
    ELSE IF entity_type = "MessengerTextBox" THEN R(6, 10)
    ELSE IF entity_type = "header" THEN R(18, 10)
    ELSE RInt(1)

\* the font size C27 gives before the clamp
ClaimedFontSize(page_height, box_height, entity_type, text_lines_count) ==
    RMul(RMul(RMul(RDiv(page_height, RInt(40)),
                   RMin(RInt(1), RDiv(box_height, RMul(page_height, R(1, 10))))),
              IF text_lines_count = 1 THEN RInt(1) ELSE R(9, 10)),
         ClaimedTypeMultiplier(entity_type))

\* C27 (as claimed): the font size returned is the clamp to
\* [page_height / 80, page_height / 30] of (page_height / 40)
\* * min(1, box_height / (page_height * 0.1)) * (1.0 for one line, else 0.9)
\* * the type multiplier: 0.5 for chat_time and chat_label, 0.7 for
\* audience_name, 0.6 for MessengerTextBox, 1.8 for headers, else 1.0.
C27_FontSizeFormula ==
    measured.done =>
        measured.font_size =
            RMax(RDiv(measure.page_height, RInt(80)),
                 RMin(ClaimedFontSize(measure.page_height, measured.box_height,
                                      measure.entity_type, measure.text_lines_count),
                      RDiv(measure.page_height, RInt(30))))

====
